---- MODULE Spec2Model ----
(***************************************************************************)
(* A model of lib/src/astro.c, the WebAssembly binding around the Swiss    *)
(* Ephemeris: the sexagesimal formatter, the JSON string escaper, and the  *)
(* operations that assemble one JSON document per call in a malloc'ed      *)
(* buffer.  The ephemeris engine (swe_calc_ut, swe_nod_aps, swe_houses_ex, *)
(* swe_get_planet_name, ...) is the environment: its answers are drawn     *)
(* from small sets.                                                        *)
(*                                                                         *)
(* Angles are integers counted in 1/SecUnit of an arc-second, so that the  *)
(* truncations of format_degrees are exact integer divisions.  Text is a   *)
(* sequence of character names: "QUOTE", "BSL" (backslash), "NL", "CR",    *)
(* "TAB", "BS", "FF", "CTL" (any other character below 32), "SP", and      *)
(* one-letter names for ordinary characters.                               *)
(***************************************************************************)
EXTENDS Integers, Sequences, FiniteSets, TLC

VARIABLES
    op,        \* the operation whose result buffer is outstanding, "none" if none
    call,      \* that operation's arguments and the engine's answers to it
    doc,       \* the content of the returned buffer, as a sequence of tokens
    length,    \* the operation's running length when it returned
    buflen,    \* the capacity its buffer was allocated with
    oob,       \* TRUE when an append wrote at or beyond offset buflen
    embedded,  \* the strings embedded in doc: what was given and what was written
    dms,       \* the result of degreesToDMS: the string and the sign index used
    coord,     \* the decimal coordinate convert_coordinates stored, in angle units
    ephe_path, \* the engine's process-wide data-file search path
    isModuleLoaded,  \* the worker's flag: the WASM module is ready
    heap,      \* the buffers the module's calls returned to the worker, not yet released
    request,   \* the calculation request the worker processed last
    made,      \* the module calls that request made, in order
    posted,    \* the message the worker posted for it
    astroSweph,  \* the AstroSweph object of the npm package
    client,    \* the SwissEphemeris object of the page
    thread,    \* the worker thread's variables, besides isModuleLoaded
    channel    \* the messages in flight between the page and the worker

page == <<astroSweph, client, thread, channel>>
worker == <<isModuleLoaded, heap, request, made, posted, page>>
vars == <<op, call, doc, length, buflen, oob, embedded, dms, coord, ephe_path,
          isModuleLoaded, heap, request, made, posted,
          astroSweph, client, thread, channel>>

(***************************************************************************)
(* Program constants.  The SE_ and SEFLG_ values are those of swephexp.h,  *)
(* which astro.c includes.                                                 *)
(***************************************************************************)
BIT_ROUND_SEC == 1
BIT_ROUND_MIN == 2
BIT_ZODIAC == 4
SEFLG_EQUATORIAL == 2048
SEFLG_SWIEPH == 2
SEFLG_SPEED == 256
SE_SUN == 0
SE_PLUTO == 9
SE_EARTH == 14
SE_NPLANETS == 23
SE_AST_OFFSET == 10000
CHART_BUFFER_SIZE == 100000
PLANETS_BUFFER_SIZE == 50000
HOUSES_BUFFER_SIZE == 10000
NODES_BUFFER_SIZE == 50000
SINGLE_BUFFER_SIZE == 1000
JULIAN_BUFFER_SIZE == 500
ESCAPED_NAME_SIZE == 100
ESCAPED_ERROR_SIZE == 500
MARGIN == 1000
MAX_ASTEROID == 1000
ZODIAC_SIGNS == 12

\* size_t arithmetic: a negative difference wraps to a huge unsigned value.
SIZE_MAX == 2147483647
SizeT(x) == IF x < 0 THEN SIZE_MAX + (x + 1) ELSE x

\* flags & bit, for a two's complement int and a power of two
HasBit(flags, bit) == (flags % (2 * bit)) \div bit = 1

(***************************************************************************)
(* Bounds of the model.                                                    *)
(***************************************************************************)
HalfSec == 50        \* half an arc-second, in angle units
MaxTens == 36        \* degreesToDMS is tried on magnitudes up to MaxTens * 10 degrees

SecUnit == 2 * HalfSec
MinUnit == 60 * SecUnit
DegUnit == 60 * MinUnit
Circle == 360 * DegUnit

(***************************************************************************)
(* printf conversions                                                      *)
(***************************************************************************)
DigitChars == <<"0", "1", "2", "3", "4", "5", "6", "7", "8", "9">>
IsDigit(c) == \E i \in 1..10 : DigitChars[i] = c
DigitValue(c) == (CHOOSE i \in 1..10 : DigitChars[i] = c) - 1

RECURSIVE Digits(_)
Digits(n) ==
    IF n < 10 THEN <<DigitChars[n + 1]>>
    ELSE Append(Digits(n \div 10), DigitChars[(n % 10) + 1])

RECURSIVE PadLeft(_, _, _)
PadLeft(s, width, pad) ==
    IF Len(s) >= width THEN s ELSE PadLeft(<<pad>> \o s, width, pad)

\* "%<width>d" and "%0<width>d" of a non-negative int
FmtInt(n, width) == PadLeft(Digits(n), width, " ")
FmtZeroInt(n, width) == PadLeft(Digits(n), width, "0")

(***************************************************************************)
(* escape_json_string                                                      *)
(***************************************************************************)
\* a table without the form-feed entry
EscapeOf_NoFormFeed(c) ==
    CASE c = "QUOTE" -> <<"BSL", "QUOTE">>
      [] c = "BSL"   -> <<"BSL", "BSL">>
      [] c = "NL"    -> <<"BSL", "n">>
      [] c = "CR"    -> <<"BSL", "r">>
      [] c = "TAB"   -> <<"BSL", "t">>
      [] c = "BS"    -> <<"BSL", "b">>
      [] c = "CTL"   -> <<"SP">>
      [] OTHER       -> <<c>>

EscapeOf(c) ==
    CASE c = "QUOTE" -> <<"BSL", "QUOTE">>
      [] c = "BSL"   -> <<"BSL", "BSL">>
      [] c = "NL"    -> <<"BSL", "n">>
      [] c = "CR"    -> <<"BSL", "r">>
      [] c = "TAB"   -> <<"BSL", "t">>
      [] c = "BS"    -> <<"BSL", "b">>
      [] c = "FF"    -> <<"BSL", "f">>
      [] c = "CTL"   -> <<"SP">>
      [] OTHER       -> <<c>>

\* the loop over src[lo..hi], by halves; st.done: the loop has been left
RECURSIVE EscapeLoop(_, _, _, _, _)
EscapeLoop(src, lo, hi, st, dest_size) ==
    IF lo > hi \/ st.done THEN st
    ELSE IF lo = hi
    THEN IF ~(Len(st.dest) < dest_size - 1) THEN [st EXCEPT !.done = TRUE]
         ELSE IF Len(st.dest) >= SizeT(dest_size - 3) THEN [st EXCEPT !.done = TRUE]
         ELSE [st EXCEPT !.dest = st.dest \o EscapeOf(src[lo])]
    ELSE LET mid   == (lo + hi) \div 2
             first == EscapeLoop(src, lo, mid, st, dest_size)
         IN  EscapeLoop(src, mid + 1, hi, first, dest_size)

escape_json_string(src, dest_size) ==
    IF dest_size < 2 THEN <<>>
    ELSE EscapeLoop(src, 1, Len(src), [dest |-> <<>>, done |-> FALSE], dest_size).dest

(***************************************************************************)
(* format_degrees.  junk is what the build finds behind zodiac_signs       *)
(* when the table is indexed out of range.                                 *)
(***************************************************************************)
zodiac_signs ==
    << <<"a", "r">>, <<"t", "a">>, <<"g", "e">>, <<"c", "n">>,
       <<"l", "e">>, <<"v", "i">>, <<"l", "i">>, <<"s", "c">>,
       <<"s", "a">>, <<"c", "p">>, <<"a", "q">>, <<"p", "i">> >>

ZodiacSignAt(index, junk) ==
    IF index \in 0..(ZODIAC_SIGNS - 1) THEN zodiac_signs[index + 1] ELSE junk

Fabs(x) == IF x < 0 THEN 0 - x ELSE x

\* swe_degnorm of a non-negative angle
swe_degnorm(x) == x % Circle

ApplyRounding(degrees, format_flags) ==
    degrees
    + (IF HasBit(format_flags, BIT_ROUND_MIN) THEN 30 * SecUnit ELSE 0)
    + (IF HasBit(format_flags, BIT_ROUND_SEC) THEN HalfSec ELSE 0)

ZodiacIndex(degrees) == degrees \div (30 * DegUnit)

\* deg, min, sec and the four-digit fraction of a second of an angle
SplitDMS(a) ==
    LET deg  == a \div DegUnit
        min  == (a - deg * DegUnit) \div MinUnit
        sec  == (a - deg * DegUnit - min * MinUnit) \div SecUnit
        rest == a - deg * DegUnit - min * MinUnit - sec * SecUnit
    IN  [deg |-> deg, min |-> min, sec |-> sec, frac |-> (rest * 10000) \div SecUnit]

FormatZodiac(degrees, format_flags, junk) ==
    LET p    == SplitDMS(degrees % (30 * DegUnit))
        name == ZodiacSignAt(ZodiacIndex(degrees), junk)
        head == FmtInt(p.deg, 2) \o <<" ">> \o name \o <<" ">> \o FmtInt(p.min, 2)
    IN  IF HasBit(format_flags, BIT_ROUND_MIN) THEN head
        ELSE IF HasBit(format_flags, BIT_ROUND_SEC)
             THEN head \o <<"'">> \o FmtInt(p.sec, 2)
        ELSE head \o <<"'">> \o FmtInt(p.sec, 2) \o <<".">> \o FmtZeroInt(p.frac, 4)

FormatPlain(degrees, format_flags) ==
    LET p      == SplitDMS(degrees)
        symbol == IF HasBit(format_flags, SEFLG_EQUATORIAL) THEN "h" ELSE "d"
        head   == FmtInt(p.deg, 3) \o <<symbol>> \o FmtInt(p.min, 2) \o <<"'">>
    IN  IF HasBit(format_flags, BIT_ROUND_MIN) THEN head
        ELSE IF HasBit(format_flags, BIT_ROUND_SEC) THEN head \o FmtInt(p.sec, 2)
        ELSE head \o FmtInt(p.sec, 2) \o <<".">> \o FmtZeroInt(p.frac, 4)

\* strpbrk(result, "0123456789"): the position of the first digit, 0 if none
FirstDigit(s) ==
    IF \E i \in 1..Len(s) : IsDigit(s[i])
    THEN CHOOSE i \in 1..Len(s) : IsDigit(s[i]) /\ \A j \in 1..(i - 1) : ~IsDigit(s[j])
    ELSE 0

ApplySign(s, sign) ==
    IF sign < 0 /\ FirstDigit(s) > 1
    THEN [s EXCEPT ![FirstDigit(s) - 1] = "-"]
    ELSE s

format_degrees(degrees, format_flags, junk) ==
    LET sign    == IF degrees < 0 THEN -1 ELSE 1
        rounded == ApplyRounding(swe_degnorm(Fabs(degrees)), format_flags)
        text    == IF HasBit(format_flags, BIT_ZODIAC)
                   THEN FormatZodiac(rounded, format_flags, junk)
                   ELSE FormatPlain(rounded, format_flags)
    IN  [result |-> ApplySign(text, sign),
         zodiac_index |-> IF HasBit(format_flags, BIT_ZODIAC)
                          THEN ZodiacIndex(rounded) ELSE -1]

(***************************************************************************)
(* The document.  A token is one piece of the output text:                 *)
(*   "{" "}" "[" "]" ","   the structural characters                       *)
(*   key   "k":             a member name and its colon                    *)
(*   kv    "k": v           a member with a number or true/false (1/0)     *)
(*   ks    "k": "s"         a member with a string, s the characters       *)
(*                          written between the quotes                     *)
(*   cut                    the part of a token snprintf had room for      *)
(* Lengths are counted in bytes: Width is the size of a token's text.      *)
(***************************************************************************)
Tok(c, k, v, s) == [c |-> c, k |-> k, v |-> v, s |-> s]
LBrace == Tok("{", "", 0, <<>>)
RBrace == Tok("}", "", 0, <<>>)
LBracket == Tok("[", "", 0, <<>>)
RBracket == Tok("]", "", 0, <<>>)
Comma == Tok(",", "", 0, <<>>)
Key(k) == Tok("key", k, 0, <<>>)
Kv(k, v) == Tok("kv", k, v, <<>>)
Ks(k, s) == Tok("ks", k, 0, s)
CutTok == Tok("cut", "", 0, <<>>)

WKey == 12      \* bytes of a member name with its quotes, colon and blanks
WNum == 10      \* bytes of a printed number

Width(t) ==
    CASE t.c = "key" -> WKey
      [] t.c = "kv"  -> WKey + WNum
      [] t.c = "ks"  -> WKey + 2 + Len(t.s)
      [] t.c = "cut" -> 0
      [] OTHER       -> 1

\* the bytes of piece[lo..hi], summed by halves
RECURSIVE WidthOf(_, _, _)
WidthOf(piece, lo, hi) ==
    IF lo > hi THEN 0
    ELSE IF lo = hi THEN Width(piece[lo])
    ELSE LET mid == (lo + hi) \div 2
         IN  WidthOf(piece, lo, mid) + WidthOf(piece, mid + 1, hi)

TotalWidth(piece) == WidthOf(piece, 1, Len(piece))

\* what is written of a piece that does not fit in room bytes: the tokens that
\* fit whole, then the mark of the cut
Fit(piece, room) ==
    LET fits(n) == WidthOf(piece, 1, n) <= room
        n == CHOOSE k \in 0..Len(piece) :
                 fits(k) /\ \A j \in (k + 1)..Len(piece) : ~fits(j)
    IN  Append(SubSeq(piece, 1, n), CutTok)

(***************************************************************************)
(* length += snprintf(buffer + length, buflen - length, piece): the state  *)
(* of an assembly is b = [doc, length, oob, emb].  snprintf writes at most *)
(* size - 1 bytes and the terminator, and returns the full size of piece;  *)
(* once length exceeds buflen the size argument, a size_t, is huge and     *)
(* the piece is written past the end of the buffer.                        *)
(***************************************************************************)
NewBuffer == [doc |-> <<>>, length |-> 0, oob |-> FALSE, emb |-> <<>>]

Snprintf(b, cap, piece) ==
    LET size == cap - b.length
        w    == TotalWidth(piece)
    IN  IF size < 0 THEN [b EXCEPT !.length = @ + w, !.oob = TRUE]
        ELSE IF size = 0 THEN [b EXCEPT !.length = @ + w]
        ELSE IF w <= size - 1 THEN [b EXCEPT !.length = @ + w, !.doc = @ \o piece]
        ELSE [b EXCEPT !.length = @ + w, !.doc = @ \o Fit(piece, size - 1)]

(***************************************************************************)
(* A standard JSON parser over the text of a document: a pushdown          *)
(* automaton, p = [st, stack].  st is what may come next: "value",         *)
(* "first" (a first element or the closing bracket), "member" (a member    *)
(* after a comma), "open" (a first member or the closing brace), "after"   *)
(* (a comma or a closer), "string", "escape", "end", "bad".                *)
(***************************************************************************)
Bad == [st |-> "bad", stack |-> <<>>]
AfterValue(stack) == [st |-> IF stack = <<>> THEN "end" ELSE "after", stack |-> stack]
Top(stack) == stack[Len(stack)]
Pop(stack) == SubSeq(stack, 1, Len(stack) - 1)

ControlChars == {"NL", "CR", "TAB", "BS", "FF", "CTL"}
EscapeLetters == {"QUOTE", "BSL", "n", "r", "t", "b", "f"}

QuoteStep(p) ==
    CASE p.st \in {"value", "first"} -> [p EXCEPT !.st = "string"]
      [] p.st = "string"             -> AfterValue(p.stack)
      [] p.st = "escape"             -> [p EXCEPT !.st = "string"]
      [] OTHER                       -> Bad

CharStep(p, c) ==
    IF c = "QUOTE" THEN QuoteStep(p)
    ELSE IF p.st = "string"
         THEN (IF c = "BSL" THEN [p EXCEPT !.st = "escape"]
               ELSE IF c \in ControlChars THEN Bad ELSE p)
    ELSE IF p.st = "escape"
         THEN (IF c \in EscapeLetters THEN [p EXCEPT !.st = "string"] ELSE Bad)
    ELSE Bad

RECURSIVE CharsStep(_, _, _)
CharsStep(p, s, i) ==
    IF i > Len(s) \/ p.st = "bad" THEN p ELSE CharsStep(CharStep(p, s[i]), s, i + 1)

InObject(p) == p.stack # <<>> /\ Top(p.stack) = "{"
InArray(p) == p.stack # <<>> /\ Top(p.stack) = "["

TokStep(p, t) ==
    CASE t.c = "{" ->
            IF p.st \in {"value", "first"}
            THEN [st |-> "open", stack |-> Append(p.stack, "{")] ELSE Bad
      [] t.c = "[" ->
            IF p.st \in {"value", "first"}
            THEN [st |-> "first", stack |-> Append(p.stack, "[")] ELSE Bad
      [] t.c = "}" ->
            IF p.st \in {"open", "after"} /\ InObject(p)
            THEN AfterValue(Pop(p.stack)) ELSE Bad
      [] t.c = "]" ->
            IF p.st \in {"first", "after"} /\ InArray(p)
            THEN AfterValue(Pop(p.stack)) ELSE Bad
      [] t.c = "," ->
            IF p.st = "after" /\ InObject(p) THEN [p EXCEPT !.st = "member"]
            ELSE IF p.st = "after" /\ InArray(p) THEN [p EXCEPT !.st = "value"]
            ELSE Bad
      [] t.c = "key" ->
            IF p.st \in {"open", "member"} THEN [p EXCEPT !.st = "value"] ELSE Bad
      [] t.c = "kv" ->
            IF p.st \in {"open", "member"} THEN AfterValue(p.stack) ELSE Bad
      [] t.c = "ks" ->
            IF p.st \in {"open", "member"}
            THEN QuoteStep(CharsStep([p EXCEPT !.st = "string"], t.s, 1))
            ELSE Bad
      [] OTHER -> Bad

\* the automaton run over d[lo..hi], by halves
RECURSIVE Parse(_, _, _, _)
Parse(p, d, lo, hi) ==
    IF lo > hi \/ p.st = "bad" THEN p
    ELSE IF lo = hi THEN TokStep(p, d[lo])
    ELSE LET mid == (lo + hi) \div 2
         IN  Parse(Parse(p, d, lo, mid), d, mid + 1, hi)

ValidJSON(d) == Parse([st |-> "value", stack |-> <<>>], d, 1, Len(d)).st = "end"

(***************************************************************************)
(* The engine.  One answer set env = [bad, ret, name, msg, base] is drawn  *)
(* per call: the bodies in bad fail with status ret and message msg, every *)
(* other body succeeds; name is the name the engine gives a body; the      *)
(* longitudes it computes are spread from base.                            *)
(***************************************************************************)
SEFLG_MOSEPH == 4
MaxBad == 3          \* bodies 1..MaxBad may fail

OkRet == SEFLG_SWIEPH + SEFLG_SPEED

PlainName == <<"S", "u", "n">>
PlainMsg == <<"e", "r", "r">>
NameTexts == {PlainName, <<"a", "QUOTE", "b">>}
\* how the bodies in bad fail: an error status, or positions computed
\* without the ephemeris files, each with its message
Failures ==
    { [ret |-> -1, msg |-> PlainMsg],
      [ret |-> SEFLG_MOSEPH + SEFLG_SPEED, msg |-> <<"n", "o", "NL", "BSL", "CTL">>] }

LonStep == 37 * DegUnit + 13 * MinUnit + 7 * SecUnit + 1
LonBases == {0, 5 * LonStep}
Lon(env, k) == (env.base + (k % 64) * LonStep) % Circle

Envs ==
    { [bad |-> bad, ret |-> f.ret, name |-> name, msg |-> f.msg, base |-> base] :
        bad \in SUBSET (1..MaxBad), f \in Failures, name \in NameTexts,
        base \in LonBases }

\* only an engine with failing bodies has a failure status and message
EngineAnswers ==
    { e \in Envs : e.bad = {} => (e.ret = -1 /\ e.msg = PlainMsg) }

\* bad lists planet numbers, and catalog numbers of asteroids
BodyFails(env, ipl) == (ipl % SE_AST_OFFSET) \in env.bad

\* swe_calc_ut: the status, x[0..3] and serr
swe_calc_ut(env, ipl) ==
    [ret  |-> IF BodyFails(env, ipl) THEN env.ret ELSE OkRet,
     x    |-> <<Lon(env, ipl), 1, 2, 1>>,
     serr |-> env.msg]

swe_get_planet_name(env, ipl) == env.name

\* swe_nod_aps: the status, the four vectors and serr
NodeVector(env, k) == <<Lon(env, k), 0, 1, 0, 0, 0>>
swe_nod_aps(env, ipl) ==
    [ret  |-> IF BodyFails(env, ipl) THEN -1 ELSE 0,
     vec  |-> [j \in 1..4 |-> NodeVector(env, 4 * ipl + j)],
     serr |-> env.msg]

\* swe_houses_ex: house_cusps[1..12] and angles[0], angles[1]
\* its return value says whether the requested system could be computed
swe_houses_ex(env) ==
    [cusps |-> [h \in 1..12 |-> Lon(env, 2 + h)], angles |-> <<Lon(env, 1), Lon(env, 2)>>,
     ret |-> IF env.bad = {} THEN 0 ELSE -1]

\* swe_julday for noon of a Gregorian date, as a whole day number
swe_julday(year, month, day) ==
    LET a == (14 - month) \div 12
        y == year + 4800 - a
        m == month + 12 * a - 3
    IN  day + (153 * m + 2) \div 5 + 365 * y + y \div 4 - y \div 100 + y \div 400 - 32045

calculate_julian_day(date) == swe_julday(date.year, date.month, date.day)

SampleDate ==
    [year |-> 2023, month |-> 12, day |-> 25, hour |-> 12, minute |-> 0, second |-> 0]
Dates == {SampleDate}

(***************************************************************************)
(* Pieces of text                                                          *)
(***************************************************************************)
Separator(is_last) == IF is_last THEN <<>> ELSE <<Comma>>

DateMembers(date) ==
    <<Kv("year", date.year), Comma, Kv("month", date.month), Comma,
      Kv("day", date.day), Comma, Kv("hour", date.hour), Comma,
      Kv("minute", date.minute), Comma, Kv("second", date.second), Comma>>

\* "initDate": { "year": .., ..., "<jd_name>": jd },
InitDate(date, jd_name, jd) ==
    <<Key("initDate"), LBrace>> \o DateMembers(date) \o <<Kv(jd_name, jd), RBrace, Comma>>

\* format_degrees(v, BIT_ZODIAC) of an engine longitude
ZodiacString(v) == format_degrees(v, BIT_ZODIAC, <<>>).result

\* several format_degrees calls among the arguments of one snprintf: each
\* returns the one static buffer, which holds the value formatted last, and
\* the order in which the arguments are evaluated is the compiler's
SharedStatic(values, last) == ZodiacString(values[last])

\* a positive status of any flags counts as success
PlanetOk_AnyPositive(result_flags) == result_flags > 0

PlanetOk(result_flags) == result_flags > 0 /\ HasBit(result_flags, SEFLG_SWIEPH)

\* the piece format_planet_json writes and the strings it embeds; error_msg
\* is <<>> for NULL and <<text>> otherwise
format_planet_json(planet_id, name, coordinates, flags, error_msg, separator) ==
    LET escaped_name == escape_json_string(name, ESCAPED_NAME_SIZE)
        head == <<LBrace, Kv("index", planet_id), Comma, Ks("name", escaped_name), Comma>>
        named == [field |-> "name", raw |-> name, written |-> escaped_name]
    IN  IF error_msg # <<>>
        THEN LET escaped_error == escape_json_string(error_msg[1], ESCAPED_ERROR_SIZE)
             IN  [piece |-> head \o
                        <<Kv("long", 0), Comma, Kv("lat", 0), Comma, Kv("distance", 0),
                          Comma, Kv("speed", 0), Comma, Ks("long_s", <<>>), Comma,
                          Kv("iflagret", flags), Comma, Kv("error", 1), Comma,
                          Ks("error_msg", escaped_error), RBrace>> \o separator,
                  emb |-> <<named, [field |-> "error_msg", raw |-> error_msg[1],
                                    written |-> escaped_error]>>]
        ELSE [piece |-> head \o
                        <<Kv("long", coordinates[1]), Comma, Kv("lat", coordinates[2]),
                          Comma, Kv("distance", coordinates[3]), Comma,
                          Kv("speed", coordinates[4]), Comma,
                          Ks("long_s", ZodiacString(coordinates[1])), Comma,
                          Kv("iflagret", flags), Comma, Kv("error", 0), RBrace>>
                        \o separator,
              emb |-> <<named>>]

\* one call: the piece it prints and the strings it embeds in it
Call(piece) == [piece |-> piece, emb |-> <<>>]
\* a string printed as it was given
Raw(field, raw) == [field |-> field, raw |-> raw, written |-> raw]
CallRaw(piece, raws) == [piece |-> piece, emb |-> raws]

\* length += <a call that writes r.piece>, noting the strings it embeds
Emit(b, cap, r) == [Snprintf(b, cap, r.piece) EXCEPT !.emb = @ \o r.emb]

\* the calls lo..hi made in order on a buffer whose length is start, taken
\* by halves: the second half starts at the length the first half reached
RECURSIVE Run(_, _, _, _, _)
Run(cap, calls, lo, hi, start) ==
    IF lo > hi THEN [NewBuffer EXCEPT !.length = start]
    ELSE IF lo = hi THEN Emit([NewBuffer EXCEPT !.length = start], cap, calls[lo])
    ELSE LET mid   == (lo + hi) \div 2
             first == Run(cap, calls, lo, mid, start)
             rest  == Run(cap, calls, mid + 1, hi, first.length)
         IN  [doc    |-> first.doc \o rest.doc,
              length |-> rest.length,
              oob    |-> first.oob \/ rest.oob,
              emb    |-> first.emb \o rest.emb]

\* the buffer an operation returns after making calls on malloc(cap)
Assemble(cap, calls) == Run(cap, calls, 1, Len(calls), 0)

\* snprintf(buffer, cap, ...) alone, its return value dropped: the operation
\* keeps no length, and length is read as that of the string in the buffer
SnprintfOnce(cap, r) ==
    LET b == Emit(NewBuffer, cap, r) IN [b EXCEPT !.length = TotalWidth(b.doc)]

\* the length after calls: the sum of what each snprintf returned
RECURSIVE LengthOf(_, _, _)
LengthOf(calls, lo, hi) ==
    IF lo > hi THEN 0
    ELSE IF lo = hi THEN TotalWidth(calls[lo].piece)
    ELSE LET mid == (lo + hi) \div 2
         IN  LengthOf(calls, lo, mid) + LengthOf(calls, mid + 1, hi)

\* the body of the planet loop of astro and getPlanets
PlanetRecord(planet, env) ==
    LET separator == Separator(planet = SE_NPLANETS - 1)
        r         == swe_calc_ut(env, planet)
        name      == swe_get_planet_name(env, planet)
    IN  IF PlanetOk(r.ret)
        THEN format_planet_json(planet, name, r.x, r.ret, <<>>, separator)
        ELSE format_planet_json(planet, name, <<>>, r.ret, <<r.serr>>, separator)

\* the loop without its continue
PlanetLoop_WithEarth(env) ==
    [i \in 1..(SE_NPLANETS - SE_SUN) |-> PlanetRecord(SE_SUN + i - 1, env)]

\* for (planet = SE_SUN; planet < SE_NPLANETS; planet++), SE_EARTH skipped
PlanetLoop(env) ==
    LET planets == SelectSeq([i \in 1..(SE_NPLANETS - SE_SUN) |-> SE_SUN + i - 1],
                             LAMBDA planet : planet # SE_EARTH)
    IN  [i \in 1..Len(planets) |-> PlanetRecord(planets[i], env)]

\* "ascmc": [ { Asc }, { MC } ],   written by one snprintf
AscMc(angles, last) ==
    <<Key("ascmc"), LBracket,
      LBrace, Ks("name", <<"A", "s", "c">>), Comma, Kv("long", angles[1]), Comma,
      Ks("long_s", SharedStatic(angles, last)), RBrace, Comma,
      LBrace, Ks("name", <<"M", "C">>), Comma, Kv("long", angles[2]), Comma,
      Ks("long_s", SharedStatic(angles, last)), RBrace, RBracket, Comma>>

HouseRecord(house, cusps) ==
    <<LBrace, Ks("name", Digits(house)), Comma, Kv("long", cusps[house]), Comma,
      Ks("long_s", ZodiacString(cusps[house])), RBrace>> \o Separator(house = 12)

\* a loop that stops one house short
HouseLoop_Eleven(cusps) == [house \in 1..11 |-> Call(HouseRecord(house, cusps))]

\* for (house = 1; house <= 12; house++)
HouseLoop(cusps) == [house \in 1..12 |-> Call(HouseRecord(house, cusps))]

(***************************************************************************)
(* astro (get), getPlanets, getHouses, getPlanet, getJulianDay             *)
(***************************************************************************)
astro(date, env, last, cap) ==
    LET julian_day == calculate_julian_day(date)
        h == swe_houses_ex(env)
    IN  Assemble(cap,
            <<Call(<<LBrace>> \o InitDate(date, "jd_ut", julian_day)),
              Call(<<Key("planets"), LBracket>>)>>
            \o PlanetLoop(env)
            \o <<Call(<<RBracket, Comma>>),
                 Call(AscMc(h.angles, last)),
                 Call(<<Key("houses"), LBracket>>)>>
            \o HouseLoop(h.cusps)
            \o <<Call(<<RBracket, RBrace>>)>>)

get(date, env, last) == astro(date, env, last, CHART_BUFFER_SIZE)

getPlanets(date, env) ==
    LET julian_day == calculate_julian_day(date)
    IN  Assemble(PLANETS_BUFFER_SIZE,
            <<Call(<<LBrace>> \o InitDate(date, "jd_ut", julian_day)
                   \o <<Key("planets"), LBracket>>)>>
            \o PlanetLoop(env)
            \o <<Call(<<RBracket, RBrace>>)>>)

getHouses(date, env, last) ==
    LET julian_day == calculate_julian_day(date)
        h == swe_houses_ex(env)
    IN  Assemble(HOUSES_BUFFER_SIZE,
            <<Call(<<LBrace>> \o InitDate(date, "jd_ut", julian_day)
                   \o AscMc(h.angles, last) \o <<Key("houses"), LBracket>>)>>
            \o HouseLoop(h.cusps)
            \o <<Call(<<RBracket, RBrace>>)>>)

\* getPlanet prints the engine's name and message as they are
getPlanet(planet_id, date, env) ==
    LET julian_day == calculate_julian_day(date)
        r    == swe_calc_ut(env, planet_id)
        name == swe_get_planet_name(env, planet_id)
        head == <<LBrace, Kv("index", planet_id), Comma, Ks("name", name), Comma>>
    IN  IF PlanetOk(r.ret)
        THEN SnprintfOnce(SINGLE_BUFFER_SIZE, CallRaw(head \o
                 <<Kv("long", r.x[1]), Comma, Kv("lat", r.x[2]), Comma,
                   Kv("distance", r.x[3]), Comma, Kv("speed", r.x[4]), Comma,
                   Ks("long_s", ZodiacString(r.x[1])), Comma,
                   Kv("jd_ut", julian_day), Comma, Kv("iflagret", r.ret), Comma,
                   Kv("error", 0), RBrace>>,
                 <<Raw("name", name)>>))
        ELSE SnprintfOnce(SINGLE_BUFFER_SIZE, CallRaw(head \o
                 <<Kv("long", 0), Comma, Kv("lat", 0), Comma, Kv("distance", 0), Comma,
                   Kv("speed", 0), Comma, Ks("long_s", <<>>), Comma,
                   Kv("jd_ut", julian_day), Comma, Kv("iflagret", r.ret), Comma,
                   Kv("error", 1), Comma, Ks("error_msg", r.serr), RBrace>>,
                 <<Raw("name", name), Raw("error_msg", r.serr)>>))

getJulianDay(date) ==
    SnprintfOnce(JULIAN_BUFFER_SIZE,
                 Call(<<LBrace>> \o DateMembers(date)
                      \o <<Kv("julian_day", calculate_julian_day(date)), RBrace>>))

(***************************************************************************)
(* getPlanetaryNodes, getSinglePlanetNodes                                 *)
(***************************************************************************)
NodeSub(name, vec, long_s) ==
    <<Key(name), LBrace, Kv("long", vec[1]), Comma, Kv("lat", vec[2]), Comma,
      Kv("distance", vec[3]), Comma, Kv("speed_long", vec[4]), Comma,
      Kv("speed_lat", vec[5]), Comma, Kv("speed_dist", vec[6]), Comma,
      Ks("long_s", long_s), RBrace, Comma>>

\* the four sub-records, their long_s read from the one static buffer
NodeBody(vec, last) ==
    LET shared == SharedStatic(<<vec[1][1], vec[2][1], vec[3][1], vec[4][1]>>, last)
    IN  NodeSub("ascending_node", vec[1], shared)
        \o NodeSub("descending_node", vec[2], shared)
        \o NodeSub("perihelion", vec[3], shared)
        \o NodeSub("aphelion", vec[4], shared)

NodeRecord(planet, env, last) ==
    LET separator    == Separator(planet = SE_PLUTO)
        r            == swe_nod_aps(env, planet)
        planet_name  == swe_get_planet_name(env, planet)
        escaped_name == escape_json_string(planet_name, ESCAPED_NAME_SIZE)
        head  == <<LBrace, Kv("index", planet), Comma, Ks("name", escaped_name), Comma>>
        named == [field |-> "name", raw |-> planet_name, written |-> escaped_name]
    IN  IF r.ret >= 0
        THEN [piece |-> head \o NodeBody(r.vec, last) \o <<Kv("error", 0), RBrace>>
                        \o separator,
              emb |-> <<named>>]
        ELSE LET escaped_error == escape_json_string(r.serr, ESCAPED_ERROR_SIZE)
             IN  [piece |-> head \o <<Kv("error", 1), Comma,
                                      Ks("error_msg", escaped_error), RBrace>>
                            \o separator,
                  emb |-> <<named, [field |-> "error_msg", raw |-> r.serr,
                                    written |-> escaped_error]>>]

\* for (planet = SE_SUN; planet <= SE_PLUTO; planet++), SE_EARTH skipped
NodeLoop(env, last) ==
    LET planets == SelectSeq([i \in 1..(SE_PLUTO - SE_SUN + 1) |-> SE_SUN + i - 1],
                             LAMBDA planet : planet # SE_EARTH)
    IN  [i \in 1..Len(planets) |-> NodeRecord(planets[i], env, last)]

\* julian_day_et is julian_day_ut plus the engine's delta, under a day
getPlanetaryNodes(date, method, cap, env, last) ==
    LET julian_day_et == calculate_julian_day(date)
    IN  Assemble(cap,
            <<Call(<<LBrace>> \o InitDate(date, "jd_et", julian_day_et)
                   \o <<Kv("method", method), Comma, Key("nodes"), LBracket>>)>>
            \o NodeLoop(env, last)
            \o <<Call(<<RBracket, RBrace>>)>>)

\* getSinglePlanetNodes prints the engine's name and message as they are
getSinglePlanetNodes(planet_id, julian_day_et, method, cap, env, last) ==
    LET r           == swe_nod_aps(env, planet_id)
        planet_name == swe_get_planet_name(env, planet_id)
        head == <<LBrace, Kv("index", planet_id), Comma, Ks("name", planet_name), Comma,
                  Kv("jd_et", julian_day_et), Comma, Kv("method", method), Comma>>
    IN  IF r.ret >= 0
        THEN SnprintfOnce(cap, CallRaw(head \o NodeBody(r.vec, last)
                                       \o <<Kv("error", 0), RBrace>>,
                                       <<Raw("name", planet_name)>>))
        ELSE SnprintfOnce(cap, CallRaw(head \o <<Kv("error", 1), Comma,
                                                 Ks("error_msg", r.serr), RBrace>>,
                                       <<Raw("name", planet_name),
                                         Raw("error_msg", r.serr)>>))

(***************************************************************************)
(* getAsteroids, getSpecificAsteroids                                      *)
(***************************************************************************)
\* "%d"
FmtSigned(n) == IF n < 0 THEN <<"-">> \o Digits(0 - n) ELSE Digits(n)

\* a variant that takes any non-negative status for a success
AsteroidOk_AnyStatus(iflagret) == iflagret >= 0

AsteroidOk(iflagret) == iflagret >= 0 /\ HasBit(iflagret, SEFLG_SWIEPH)

\* the engine's name, or Asteroid_<n> when it has none
AsteroidName(env, ast_num) ==
    LET snam == swe_get_planet_name(env, SE_AST_OFFSET + ast_num)
    IN  IF Len(snam) = 0 \/ snam = <<"?">>
        THEN <<"A", "s", "t", "e", "r", "o", "i", "d", "_">> \o FmtSigned(ast_num)
        ELSE snam

\* the record of one asteroid: its piece, the strings it embeds, its tally
AsteroidRecord(ast_num, env, sChar) ==
    LET r            == swe_calc_ut(env, SE_AST_OFFSET + ast_num)
        snam         == AsteroidName(env, ast_num)
        escaped_name == escape_json_string(snam, ESCAPED_NAME_SIZE)
        head  == <<LBrace, Kv("index", ast_num), Comma, Ks("name", escaped_name), Comma>>
        named == [field |-> "name", raw |-> snam, written |-> escaped_name]
    IN  IF AsteroidOk(r.ret)
        THEN [piece |-> head \o
                        <<Kv("long", r.x[1]), Comma, Kv("lat", r.x[2]), Comma,
                          Kv("distance", r.x[3]), Comma, Kv("speed", r.x[4]), Comma,
                          Ks("long_s", ZodiacString(r.x[1])), Comma,
                          Kv("iflagret", r.ret), Comma, Kv("error", 0), RBrace>> \o sChar,
              emb |-> <<named>>, calculated |-> 1, errors |-> 0]
        ELSE LET escaped_error == escape_json_string(r.serr, ESCAPED_ERROR_SIZE)
             IN  [piece |-> head \o
                        <<Kv("long", 0), Comma, Kv("lat", 0), Comma, Kv("distance", 0),
                          Comma, Kv("speed", 0), Comma, Ks("long_s", <<>>), Comma,
                          Kv("iflagret", r.ret), Comma, Kv("error", 1), Comma,
                          Ks("error_msg", escaped_error), RBrace>> \o sChar,
                  emb |-> <<named, [field |-> "error_msg", raw |-> r.serr,
                                    written |-> escaped_error]>>,
                  calculated |-> 0, errors |-> 1]

\* a variant whose tally leaves the failed items out
Tally_ErrorsUncounted(st, rec) ==
    [calls            |-> Append(st.calls, rec),
     length           |-> st.length + TotalWidth(rec.piece),
     calculated_count |-> st.calculated_count + rec.calculated,
     error_count      |-> st.error_count]

\* the state of a batch loop: the calls made, length, and the two tallies
Tally(st, rec) ==
    [calls            |-> Append(st.calls, rec),
     length           |-> st.length + TotalWidth(rec.piece),
     calculated_count |-> st.calculated_count + rec.calculated,
     error_count      |-> st.error_count + rec.errors]

\* the loop's state after the calls that precede the loop
AfterHeader(calls) ==
    [calls |-> calls, length |-> LengthOf(calls, 1, Len(calls)),
     calculated_count |-> 0, error_count |-> 0]

\* if (length > buflen - 1000)
MarginCrossed(len, cap) == len > cap - MARGIN

WarningText == <<"B", "u", "f", "f", "e", "r", " ", "l", "i", "m", "i", "t">>
Warning(text) == <<LBrace, Ks("warning", text), RBrace>>

RECURSIVE AsteroidRangeLoop(_, _, _, _, _)
AsteroidRangeLoop(st, cap, ast_num, end_num, env) ==
    IF ~(ast_num <= end_num) THEN st
    ELSE LET sChar == Separator(ast_num = end_num)
             st1   == Tally(st, AsteroidRecord(ast_num, env, sChar))
         IN  IF MarginCrossed(st1.length, cap)
             THEN [st1 EXCEPT !.calls = Append(@,
                       Call(Warning(WarningText \o <<" ">> \o FmtSigned(ast_num))))]
             ELSE AsteroidRangeLoop(st1, cap, ast_num + 1, end_num, env)

\* the validation of start_num and end_num
ValidateRange(start_num, end_num) ==
    LET s1 == IF start_num < 1 THEN 1 ELSE start_num
        e1 == IF end_num > MAX_ASTEROID THEN MAX_ASTEROID ELSE end_num
    IN  IF s1 > e1 THEN [start |-> e1, end |-> s1] ELSE [start |-> s1, end |-> e1]

Summary(st, total) ==
    <<Key("summary"), LBrace, Kv("calculated", st.calculated_count), Comma,
      Kv("errors", st.error_count), Comma, Kv("total_requested", total), RBrace, RBrace>>

getAsteroids(date, start_num, end_num, cap, env) ==
    LET range  == ValidateRange(start_num, end_num)
        tjd_ut == calculate_julian_day(date)
        header == <<Call(<<LBrace>>),
                    Call(InitDate(date, "jd_ut", tjd_ut)),
                    Call(<<Key("asteroid_range"), LBrace, Kv("start", range.start),
                           Comma, Kv("end", range.end), RBrace, Comma>>),
                    Call(<<Key("asteroids"), LBracket>>)>>
        st == AsteroidRangeLoop(AfterHeader(header), cap, range.start, range.end, env)
    IN  Assemble(cap, st.calls
                      \o <<Call(<<RBracket, Comma>>),
                           Call(Summary(st, range.end - range.start + 1))>>)

\* strtok(list_copy, ","): the non-empty runs of characters between commas
RECURSIVE Strtok(_, _, _, _)
Strtok(list, i, token, tokens) ==
    IF i > Len(list) THEN (IF token = <<>> THEN tokens ELSE Append(tokens, token))
    ELSE IF list[i] = ","
         THEN Strtok(list, i + 1, <<>>, IF token = <<>> THEN tokens ELSE Append(tokens, token))
    ELSE Strtok(list, i + 1, Append(token, list[i]), tokens)

RECURSIVE AtoiDigits(_, _, _)
AtoiDigits(token, i, acc) ==
    IF i > Len(token) \/ ~IsDigit(token[i]) THEN acc
    ELSE AtoiDigits(token, i + 1, acc * 10 + DigitValue(token[i]))

RECURSIVE SkipBlanks(_, _)
SkipBlanks(token, i) ==
    IF i <= Len(token) /\ token[i] = " " THEN SkipBlanks(token, i + 1) ELSE i

atoi(token) ==
    LET i == SkipBlanks(token, 1)
    IN  IF i <= Len(token) /\ token[i] = "-" THEN 0 - AtoiDigits(token, i + 1, 0)
        ELSE IF i <= Len(token) /\ token[i] = "+" THEN AtoiDigits(token, i + 1, 0)
        ELSE AtoiDigits(token, i, 0)

\* the parse loop: asteroid_numbers[0 .. num_asteroids - 1]
RECURSIVE ParseNumbers(_, _, _)
ParseNumbers(tokens, i, asteroid_numbers) ==
    IF ~(i <= Len(tokens) /\ Len(asteroid_numbers) < MAX_ASTEROID) THEN asteroid_numbers
    ELSE LET ast_num == atoi(tokens[i])
         IN  ParseNumbers(tokens, i + 1,
                          IF ast_num > 0 /\ ast_num <= MAX_ASTEROID
                          THEN Append(asteroid_numbers, ast_num) ELSE asteroid_numbers)

ParseAsteroidList(asteroid_list) == ParseNumbers(Strtok(asteroid_list, 1, <<>>, <<>>), 1, <<>>)

RECURSIVE AsteroidListLoop(_, _, _, _, _)
AsteroidListLoop(st, cap, i, asteroid_numbers, env) ==
    IF ~(i < Len(asteroid_numbers)) THEN st
    ELSE LET ast_num == asteroid_numbers[i + 1]
             sChar   == Separator(i = Len(asteroid_numbers) - 1)
             st1     == Tally(st, AsteroidRecord(ast_num, env, sChar))
         IN  IF MarginCrossed(st1.length, cap)
             THEN [st1 EXCEPT !.calls = Append(@, Call(Warning(WarningText)))]
             ELSE AsteroidListLoop(st1, cap, i + 1, asteroid_numbers, env)

\* getSpecificAsteroids prints asteroid_list as it is
getSpecificAsteroids(date, asteroid_list, cap, env) ==
    LET asteroid_numbers == ParseAsteroidList(asteroid_list)
        tjd_ut == calculate_julian_day(date)
        header == <<Call(<<LBrace>>),
                    Call(InitDate(date, "jd_ut", tjd_ut)),
                    CallRaw(<<Ks("requested_list", asteroid_list), Comma>>,
                            <<Raw("requested_list", asteroid_list)>>),
                    Call(<<Key("asteroids"), LBracket>>)>>
        st == AsteroidListLoop(AfterHeader(header), cap, 0, asteroid_numbers, env)
    IN  Assemble(cap, st.calls
                      \o <<Call(<<RBracket, Comma>>),
                           Call(Summary(st, Len(asteroid_numbers)))>>)

(***************************************************************************)
(* getEphemerisInfo: path is what swe_get_library_path returns             *)
(***************************************************************************)
getEphemerisInfo(cap, path) ==
    Assemble(cap,
        <<Call(<<LBrace>>),
          CallRaw(<<Ks("ephemeris_path", path), Comma>>, <<Raw("ephemeris_path", path)>>),
          Call(<<Key("date_range"), LBrace,
                 Ks("start", <<"0", "6", "0", "0", "-", "0", "1", "-", "0", "1">>), Comma,
                 Ks("end", <<"2", "4", "0", "0", "-", "0", "1", "-", "0", "1">>),
                 RBrace, Comma>>),
          Call(<<Ks("files_loaded", <<"V", "F", "S">>), Comma>>),
          Call(<<Ks("compression", <<"L", "Z", "4">>), RBrace>>)>>)

(***************************************************************************)
(* The state after construction: no result buffer is outstanding.          *)
(***************************************************************************)
NoCall == [kind |-> "none"]
\* the search path before any call has set one: the engine's own
EnginePath == <<>>
\* the directory every calculation call names: swe_set_ephe_path("eph")
EphDir == <<"e", "p", "h">>
swe_set_ephe_path(path) == ephe_path' = path
\* the worker before its first request
NoRequest == [kind |-> "none"]
NoMessage == [kind |-> "none"]
NoDms == [result |-> <<>>, zodiac_index |-> -1]

\* the number of requests one SwissEphemeris object issues
MaxRequests == 3
Ids == 1..MaxRequests
\* new AstroSweph(): Module null, initialized false
NewAstroSweph ==
    [initialized |-> FALSE, Module |-> FALSE, loading |-> 0, loads |-> 0,
     calls |-> 0, last |-> "constructed"]
\* no reply has settled the promise yet
NoReply == [text |-> "none"]
NoPromise == [call |-> "none", state |-> "none", by |-> NoReply]
\* new SwissEphemeris(): no worker, nothing pending, calculationId 0
NewClient ==
    [worker |-> FALSE, calculationId |-> 0, pendingCalculations |-> {},
     _cleanupTimer |-> FALSE, armed |-> FALSE, timers |-> {},
     promise |-> [id \in Ids |-> NoPromise]]
\* a worker script that has just started: pendingData null, nothing loading
NewThread == [isModuleLoading |-> FALSE, pendingData |-> 0, loads |-> <<>>]
NoMessages == [toWorker |-> <<>>, toClient |-> <<>>]

Init ==
    /\ op = "none"
    /\ call = NoCall
    /\ doc = <<>>
    /\ length = 0
    /\ buflen = 0
    /\ oob = FALSE
    /\ embedded = <<>>
    /\ dms = NoDms
    /\ coord = 0
    /\ ephe_path = EnginePath
    /\ isModuleLoaded = FALSE
    /\ heap = <<>>
    /\ request = NoRequest
    /\ made = <<>>
    /\ posted = NoMessage
    /\ astroSweph = NewAstroSweph
    /\ client = NewClient
    /\ thread = NewThread
    /\ channel = NoMessages

\* freeMemory(ptr): the caller releases the buffer it was returned
FreeMemory ==
    /\ op # "none"
    /\ op' = "none"
    /\ call' = NoCall
    /\ doc' = <<>>
    /\ length' = 0
    /\ buflen' = 0
    /\ oob' = FALSE
    /\ embedded' = <<>>
    /\ dms' = NoDms
    /\ coord' = 0
    /\ UNCHANGED <<ephe_path, worker>>

(***************************************************************************)
(* degreesToDMS                                                            *)
(***************************************************************************)
DMS_BUFFER_SIZE == 100

\* what zodiac_signs[12] may read
Junk == { <<>>, <<"?", "?">> }

FormatFlags ==
    { r + z + e : r \in {0, BIT_ROUND_SEC, BIT_ROUND_MIN, BIT_ROUND_SEC + BIT_ROUND_MIN},
                  z \in {0, BIT_ZODIAC}, e \in {0, SEFLG_EQUATORIAL} }

TenDeg == 10 * DegUnit

Offsets ==
    { 0, 1, HalfSec, SecUnit, 30 * SecUnit, MinUnit,
      5 * DegUnit + 30 * MinUnit + 15 * SecUnit + 25,
      TenDeg - 1, TenDeg - HalfSec, TenDeg - 30 * SecUnit, TenDeg - MinUnit }

DegInputs ==
    { s * (t * TenDeg + o) : s \in {1, -1}, t \in 0..MaxTens, o \in Offsets }

DegreesToDMS(degrees, format) ==
    /\ op = "none"
    /\ \E junk \in Junk : dms' = format_degrees(degrees, format, junk)
    /\ op' = "degreesToDMS"
    /\ call' = [kind |-> "degreesToDMS", degrees |-> degrees, format |-> format]
    /\ buflen' = DMS_BUFFER_SIZE
    /\ length' = Len(dms'.result)
    /\ UNCHANGED <<doc, oob, embedded, coord, ephe_path, worker>>

NextFmt ==
    \/ \E degrees \in DegInputs, format \in FormatFlags : DegreesToDMS(degrees, format)
    \/ FreeMemory

SpecFmt == Init /\ [][NextFmt]_vars

(***************************************************************************)
(* convert_coordinates: degrees, minutes, seconds and a hemisphere letter  *)
(* to a signed decimal angle.  The angle is kept in the module's angle     *)
(* units (DegUnit to the degree), where the sum is exact.                  *)
(***************************************************************************)
MaxDeg == 179
MaxMin == 59
MaxSec == 59

Hemispheres == {"E", "W", "N", "S"}
CoordDegs == {0, 1, 51, 90, MaxDeg}
CoordMins == {0, 1, 5, 30, MaxMin}
CoordSecs == 0..MaxSec

\* a normalizer that knows longitudes only
convert_coordinates_WestOnly(deg, min, sec, direction) ==
    LET result == deg * DegUnit + min * MinUnit + sec * SecUnit
    IN  IF direction = "W" THEN -result ELSE result

convert_coordinates(deg, min, sec, direction) ==
    LET result == deg * DegUnit + min * MinUnit + sec * SecUnit
    IN  IF direction = "W" \/ direction = "S" THEN -result ELSE result

\* the conversion as astro and getHouses run it on their arguments
ConvertCoordinates(deg, min, sec, direction) ==
    /\ op = "none"
    /\ op' = "convert_coordinates"
    /\ call' = [kind |-> "convert_coordinates", deg |-> deg, min |-> min, sec |-> sec,
                direction |-> direction]
    /\ coord' = convert_coordinates(deg, min, sec, direction)
    /\ UNCHANGED <<doc, length, buflen, oob, embedded, dms, ephe_path, worker>>

NextGeo ==
    \/ \E deg \in CoordDegs, min \in CoordMins, sec \in CoordSecs,
          direction \in Hemispheres : ConvertCoordinates(deg, min, sec, direction)
    \/ FreeMemory

SpecGeo == Init /\ [][NextGeo]_vars

(***************************************************************************)
(* escape_json_string on the texts the engine can hand over: a body name   *)
(* fills at most planet_name[40], a message at most error_msg[AS_MAXCH].   *)
(* The short texts are all texts over the alphabet; the long ones fill the *)
(* buffer with one character, or with quotes followed by letters around    *)
(* the point where the escaped form no longer fits.                        *)
(***************************************************************************)
NAME_SIZE == 40
AS_MAXCH == 256
MaxShort == 2

Alphabet == {"a", "QUOTE", "BSL", "NL", "CR", "TAB", "BS", "FF", "CTL"}
Rep(c, n) == [i \in 1..n |-> c]

ShortTexts == UNION { [1..n -> Alphabet] : n \in 0..MaxShort }
EngineNames == ShortTexts \cup { Rep(c, NAME_SIZE - 1) : c \in Alphabet }
EngineMessages ==
    ShortTexts
    \cup { Rep(c, n) : c \in Alphabet, n \in {NAME_SIZE - 1, AS_MAXCH - 1} }
    \cup { Rep("QUOTE", k) \o Rep("a", AS_MAXCH - 1 - k) :
               k \in (ESCAPED_ERROR_SIZE - AS_MAXCH - 4)..(ESCAPED_ERROR_SIZE - AS_MAXCH) }

\* escape_json_string(name, escaped_name, sizeof(escaped_name)) and the same
\* for the message, as format_planet_json calls it
EscapeJsonString(field, src, dest_size) ==
    /\ op = "none"
    /\ op' = "escape_json_string"
    /\ call' = [kind |-> "escape_json_string", field |-> field, src |-> src]
    /\ embedded' = <<[field |-> field, raw |-> src,
                      written |-> escape_json_string(src, dest_size)]>>
    /\ buflen' = dest_size
    /\ length' = Len(embedded'[1].written)
    /\ UNCHANGED <<doc, oob, dms, coord, ephe_path, worker>>

NextEsc ==
    \/ \E name \in EngineNames : EscapeJsonString("name", name, ESCAPED_NAME_SIZE)
    \/ \E msg \in EngineMessages : EscapeJsonString("error_msg", msg, ESCAPED_ERROR_SIZE)
    \/ FreeMemory

SpecEsc == Init /\ [][NextEsc]_vars

(***************************************************************************)
(* The serialization operations.  A call draws its arguments and the       *)
(* engine's answers, runs to its return, and leaves the returned document  *)
(* with the caller until freeMemory.                                       *)
(***************************************************************************)
BufStep == 200
MaxBufSteps == 10
MaxList == 4

\* capacities: too small for the header, and around the margin
BufLens == {1, BufStep} \cup { BufStep * k : k \in (MaxBufSteps - 3)..MaxBufSteps }
NodeBufLens == {1, BufStep * MaxBufSteps, NODES_BUFFER_SIZE}
SmallBufLens == {1, BufStep \div 2, BufStep * MaxBufSteps}

\* the engine as the asteroid calls see it: a body may also have no name
AsteroidAnswers ==
    { e \in EngineAnswers : e.base = 0 }
    \cup { [e EXCEPT !.name = <<"?">>] : e \in { f \in EngineAnswers :
                                                 f.base = 0 /\ f.name = PlainName } }

Ranges ==
    { <<1, 3>>, <<3, 1>>, <<2, 2>>, <<-1, 0>>, <<1, MaxList>>,
      <<1, MAX_ASTEROID>>, <<MAX_ASTEROID + 1, MAX_ASTEROID + 2>> }

Lists ==
    { <<"1", ",", "2", ",", "3">>,
      <<"2">>,
      <<>>,
      <<" ", "2", ",", ",", "x", ",", "-", "1", ",", "1">>,
      <<"1", ",", "QUOTE", "2">>,
      <<"0", ",", "1", "0", "0", "1", ",", "4">>,
      <<"1", "5", "6", "6", ",", "1">>,
      [i \in 1..(2 * MaxList - 1) |-> IF i % 2 = 0 THEN "," ELSE Digits((i + 1) \div 2)[1]] }

Paths == { <<"e", "p", "h">>, <<"C", ":", "BSL", "e", "p", "h">> }

Return(name, c, b, cap) ==
    /\ op' = name
    /\ call' = c
    /\ doc' = b.doc
    /\ length' = b.length
    /\ buflen' = cap
    /\ oob' = b.oob
    /\ embedded' = b.emb
    /\ UNCHANGED <<dms, coord, worker>>

\* get: astro with CHART_BUFFER_SIZE
Get(date, env, last) ==
    /\ op = "none"
    /\ swe_set_ephe_path(EphDir)
    /\ Return("get", [kind |-> "get", date |-> date, env |-> env, last |-> last],
              get(date, env, last), CHART_BUFFER_SIZE)

GetPlanets(date, env) ==
    /\ op = "none"
    /\ swe_set_ephe_path(EphDir)
    /\ Return("getPlanets", [kind |-> "getPlanets", date |-> date, env |-> env],
              getPlanets(date, env), PLANETS_BUFFER_SIZE)

GetHouses(date, env, last) ==
    /\ op = "none"
    /\ swe_set_ephe_path(EphDir)
    /\ Return("getHouses", [kind |-> "getHouses", date |-> date, env |-> env, last |-> last],
              getHouses(date, env, last), HOUSES_BUFFER_SIZE)

GetPlanet(planet_id, date, env) ==
    /\ op = "none"
    /\ swe_set_ephe_path(EphDir)
    /\ Return("getPlanet", [kind |-> "getPlanet", planet_id |-> planet_id, date |-> date,
                            env |-> env],
              getPlanet(planet_id, date, env), SINGLE_BUFFER_SIZE)

GetJulianDay(date) ==
    /\ op = "none"
    /\ UNCHANGED ephe_path
    /\ Return("getJulianDay", [kind |-> "getJulianDay", date |-> date],
              getJulianDay(date), JULIAN_BUFFER_SIZE)

GetPlanetaryNodes(date, method, cap, env, last) ==
    /\ op = "none"
    /\ swe_set_ephe_path(EphDir)
    /\ Return("getPlanetaryNodes",
              [kind |-> "getPlanetaryNodes", date |-> date, method |-> method,
               env |-> env, last |-> last],
              getPlanetaryNodes(date, method, cap, env, last), cap)

GetSinglePlanetNodes(planet_id, julian_day_et, method, cap, env, last) ==
    /\ op = "none"
    /\ swe_set_ephe_path(EphDir)
    /\ Return("getSinglePlanetNodes",
              [kind |-> "getSinglePlanetNodes", planet_id |-> planet_id,
               julian_day_et |-> julian_day_et, method |-> method, env |-> env,
               last |-> last],
              getSinglePlanetNodes(planet_id, julian_day_et, method, cap, env, last), cap)

GetAsteroids(date, start_num, end_num, cap, env) ==
    /\ op = "none"
    /\ swe_set_ephe_path(EphDir)
    /\ Return("getAsteroids",
              [kind |-> "getAsteroids", date |-> date, start_num |-> start_num,
               end_num |-> end_num, env |-> env],
              getAsteroids(date, start_num, end_num, cap, env), cap)

GetSpecificAsteroids(date, asteroid_list, cap, env) ==
    /\ op = "none"
    /\ swe_set_ephe_path(EphDir)
    /\ Return("getSpecificAsteroids",
              [kind |-> "getSpecificAsteroids", date |-> date,
               asteroid_list |-> asteroid_list, env |-> env],
              getSpecificAsteroids(date, asteroid_list, cap, env), cap)

GetEphemerisInfo(cap, path) ==
    /\ op = "none"
    /\ UNCHANGED ephe_path
    /\ Return("getEphemerisInfo", [kind |-> "getEphemerisInfo", path |-> path],
              getEphemerisInfo(cap, path), cap)

\* setEphemerisPath(path): returns 0 and no buffer
SetEphemerisPath(path) ==
    /\ op = "none"
    /\ swe_set_ephe_path(path)
    /\ UNCHANGED <<op, call, doc, length, buflen, oob, embedded, dms, coord, worker>>

Next ==
    \/ \E date \in Dates, env \in EngineAnswers, last \in 1..2 : Get(date, env, last)
    \/ \E date \in Dates, env \in EngineAnswers : GetPlanets(date, env)
    \/ \E date \in Dates, env \in EngineAnswers, last \in 1..2 : GetHouses(date, env, last)
    \/ \E planet_id \in {SE_SUN, MaxBad}, date \in Dates, env \in EngineAnswers :
           GetPlanet(planet_id, date, env)
    \/ \E date \in Dates : GetJulianDay(date)
    \/ \E date \in Dates, cap \in NodeBufLens, env \in EngineAnswers, last \in 1..4 :
           GetPlanetaryNodes(date, 1, cap, env, last)
    \/ \E planet_id \in {SE_SUN, MaxBad}, cap \in SmallBufLens, env \in AsteroidAnswers,
          last \in 1..4 :
           GetSinglePlanetNodes(planet_id, calculate_julian_day(SampleDate), 1, cap,
                                env, last)
    \/ \E date \in Dates, r \in Ranges, cap \in BufLens, env \in AsteroidAnswers :
           GetAsteroids(date, r[1], r[2], cap, env)
    \/ \E date \in Dates, asteroid_list \in Lists, cap \in BufLens,
          env \in AsteroidAnswers :
           GetSpecificAsteroids(date, asteroid_list, cap, env)
    \/ \E cap \in SmallBufLens, path \in Paths : GetEphemerisInfo(cap, path)
    \/ FreeMemory

Spec == Init /\ [][Next]_vars

(***************************************************************************)
(* The search path across calls: setEphemerisPath between calculation      *)
(* calls, each operation on one sample of its arguments, getPlanet on      *)
(* every answer of the engine.                                             *)
(***************************************************************************)
SampleEnv == CHOOSE env \in AsteroidAnswers : env.bad = {} /\ env.name = PlainName
SampleList == <<"1", ",", "2", ",", "3">>

Calculation ==
    \/ Get(SampleDate, SampleEnv, 1)
    \/ GetPlanets(SampleDate, SampleEnv)
    \/ GetHouses(SampleDate, SampleEnv, 1)
    \/ \E planet_id \in {SE_SUN, MaxBad}, env \in EngineAnswers :
           GetPlanet(planet_id, SampleDate, env)
    \/ GetPlanetaryNodes(SampleDate, 1, NODES_BUFFER_SIZE, SampleEnv, 1)
    \/ GetSinglePlanetNodes(SE_SUN, calculate_julian_day(SampleDate), 1,
                            BufStep * MaxBufSteps, SampleEnv, 1)
    \/ GetAsteroids(SampleDate, 1, 3, BufStep * MaxBufSteps, SampleEnv)
    \/ GetSpecificAsteroids(SampleDate, SampleList, BufStep * MaxBufSteps, SampleEnv)

NextPath ==
    \/ \E path \in Paths : SetEphemerisPath(path)
    \/ Calculation
    \/ GetJulianDay(SampleDate)
    \/ \E path \in Paths : GetEphemerisInfo(BufStep * MaxBufSteps, path)
    \/ FreeMemory

SpecPath == Init /\ [][NextPath]_vars

(***************************************************************************)
(* The worker: processData handles one calculation request.  It calls get  *)
(* with the request's chart arguments, then getPlanetaryNodes and the      *)
(* asteroid call when requested, parses each returned document, merges     *)
(* them into one object and posts it.  The request's chart arguments and   *)
(* the engine's answers are one sample; what varies is what was requested  *)
(* and which module calls throw.                                           *)
(***************************************************************************)
WORKER_NODES_BUFLEN == 50000
WORKER_ASTEROIDS_BUFLEN == 100000
MaxHeap == 3

AsteroidRequest(mode, start, end, list) ==
    [mode |-> mode, start |-> start, end |-> end, list |-> list]
NoAsteroids == AsteroidRequest("null", 0, 0, <<>>)
AsteroidData ==
    { NoAsteroids,
      AsteroidRequest("range", 1, 3, <<>>),
      AsteroidRequest("specific", 0, 0, SampleList),
      AsteroidRequest("specific", 0, 0, <<"1", ",", "QUOTE", "2">>),
      AsteroidRequest("specific", 0, 0, <<>>),
      AsteroidRequest("popular", 0, 0, <<>>) }

Requests ==
    [calculateNodes : BOOLEAN, asteroidData : AsteroidData, _calculationId : {0, 7}]

\* the module calls that may throw: a missing export, a runtime abort
AsteroidCalls == {"getAsteroids", "getSpecificAsteroids"}
Throws ==
    { {}, {"get"}, {"getPlanetaryNodes"}, AsteroidCalls,
      {"getPlanetaryNodes"} \cup AsteroidCalls }

\* UTF8ToString of what a call returns, and whether JSON.parse accepts it
Returned(b) == [text |-> b.doc, parses |-> ValidJSON(b.doc)]
ChartResult == Returned(get(SampleDate, SampleEnv, 1))
NodesResult ==
    Returned(getPlanetaryNodes(SampleDate, 0, WORKER_NODES_BUFLEN, SampleEnv, 1))
RangeResult ==
    Returned(getAsteroids(SampleDate, 1, 3, WORKER_ASTEROIDS_BUFLEN, SampleEnv))
ListResult ==
    Returned(getSpecificAsteroids(SampleDate, SampleList, WORKER_ASTEROIDS_BUFLEN,
                                  SampleEnv))
QuotedListResult ==
    Returned(getSpecificAsteroids(SampleDate, <<"1", ",", "QUOTE", "2">>,
                                  WORKER_ASTEROIDS_BUFLEN, SampleEnv))

\* self.Module: what the exported functions return for the sample request
Module ==
    [get |-> ChartResult, getPlanetaryNodes |-> NodesResult,
     getAsteroids |-> RangeResult,
     getSpecificAsteroids |-> [quoted \in BOOLEAN |->
                                  IF quoted THEN QuotedListResult ELSE ListResult]]

\* a try body: whether it threw, the value it assigned, the module calls it
\* made and the result buffers they returned
Outcome(threw, value, calls, allocated) ==
    [threw |-> threw, value |-> value, made |-> calls, allocated |-> allocated]

\* const ptr = Module._f(...); JSON.parse(Module.UTF8ToString(ptr))
CallAndParse(f, result, throws) ==
    IF f \in throws THEN Outcome(TRUE, <<>>, <<f>>, <<>>)
    ELSE IF ~result.parses THEN Outcome(TRUE, <<>>, <<f>>, <<f>>)
    ELSE Outcome(FALSE, result.text, <<f>>, <<f>>)

\* { error: true, error_msg: 'Failed to calculate <what>: ' + error.message }
ErrorObject(what) ==
    <<LBrace, Kv("error", 1), Comma,
      Ks("error_msg", <<"F", "a", "i", "l", "e", "d", " ">> \o what), RBrace>>

\* catch (error) { mainResult.<section> = { error: true, ... } }
Catch(outcome, what) ==
    IF outcome.threw
    THEN [outcome EXCEPT !.threw = FALSE, !.value = ErrorObject(what)]
    ELSE outcome

\* an optional section of the result: the member it adds, if any
Section(key, outcome) ==
    [key |-> key, present |-> outcome.value # <<>>, threw |-> outcome.threw,
     value |-> outcome.value, made |-> outcome.made, allocated |-> outcome.allocated]
Absent(key) == Section(key, Outcome(FALSE, <<>>, <<>>, <<>>))

\* a nodes section whose failure is not caught
NodesSection_Uncaught(M, data, throws) ==
    IF data.calculateNodes
    THEN Section("nodes", CallAndParse("getPlanetaryNodes", M.getPlanetaryNodes, throws))
    ELSE Absent("nodes")

\* if (calculateNodes) { try { ... } catch { ... } }
NodesSection(M, data, throws) ==
    IF data.calculateNodes
    THEN Section("nodes", Catch(CallAndParse("getPlanetaryNodes", M.getPlanetaryNodes,
                                             throws),
                                <<"n", "o", "d", "e", "s">>))
    ELSE Absent("nodes")

\* the body of the asteroid try block
AsteroidsBody(M, a, throws) ==
    IF a.mode = "range"
    THEN CallAndParse("getAsteroids", M.getAsteroids, throws)
    ELSE IF a.mode = "specific"
    THEN IF a.list = <<>>
         THEN Outcome(TRUE, <<>>, <<>>, <<>>)
         ELSE LET r == CallAndParse("getSpecificAsteroids",
                                    M.getSpecificAsteroids[a.list # SampleList],
                                    throws)
              IN  [r EXCEPT !.made = <<"malloc">> \o r.made \o <<"free">>]
    ELSE Outcome(FALSE, <<>>, <<>>, <<>>)

\* if (asteroidData) { try { ... } catch { ... } }
AsteroidsSection(M, data, throws) ==
    IF data.asteroidData # NoAsteroids
    THEN Section("asteroids", Catch(AsteroidsBody(M, data.asteroidData, throws),
                                    <<"a", "s", "t", "e", "r", "o", "i", "d", "s">>))
    ELSE Absent("asteroids")

\* the optional sections the other way round
OptionalSections_AsteroidsFirst(M, data, throws) ==
    <<AsteroidsSection(M, data, throws), NodesSection(M, data, throws)>>

\* the optional sections in the order processData computes them
OptionalSections(M, data, throws) ==
    <<NodesSection(M, data, throws), AsteroidsSection(M, data, throws)>>

\* if (data._calculationId) result._calculationId = data._calculationId
CalculationId(data) ==
    IF data._calculationId # 0
    THEN <<Comma, Kv("_calculationId", data._calculationId)>>
    ELSE <<>>

\* JSON.stringify of the parsed chart with the members added to it
Stringify(chart, sections, data) ==
    LET members == [i \in 1..Len(sections) |->
                       IF sections[i].present
                       THEN <<Comma, Key(sections[i].key)>> \o sections[i].value
                       ELSE <<>>]
    IN  SubSeq(chart, 1, Len(chart) - 1)
        \o members[1] \o members[2] \o CalculationId(data) \o <<RBrace>>

\* the outer catch: { error: true, error_msg: 'Calculation failed: ...' }
ErrorMessage(data) ==
    [kind |-> "error",
     doc  |-> <<LBrace, Kv("error", 1), Comma,
                Ks("error_msg", <<"C", "a", "l", "c", "u", "l", "a", "t", "i", "o", "n",
                                  " ", "f", "a", "i", "l", "e", "d">>)>>
              \o CalculationId(data) \o <<RBrace>>]

processData(M, data, throws) ==
    LET main     == CallAndParse("get", M.get, throws)
        sections == OptionalSections(M, data, throws)
        first    == sections[1]
        second   == IF first.threw THEN Absent(sections[2].key) ELSE sections[2]
    IN  IF main.threw
        THEN [message |-> ErrorMessage(data), made |-> main.made,
              allocated |-> main.allocated, reset |-> TRUE]
        ELSE IF first.threw \/ second.threw
        THEN [message |-> ErrorMessage(data),
              made |-> main.made \o first.made \o second.made,
              allocated |-> main.allocated \o first.allocated \o second.allocated,
              reset |-> TRUE]
        ELSE [message |-> [kind |-> "result",
                           doc  |-> Stringify(main.value, <<first, second>>, data)],
              made |-> main.made \o first.made \o second.made \o <<"swe_close">>,
              allocated |-> main.allocated \o first.allocated \o second.allocated,
              reset |-> FALSE]

\* onRuntimeInitialized: the module has loaded
LoadModule ==
    /\ ~isModuleLoaded
    /\ isModuleLoaded' = TRUE
    /\ UNCHANGED <<op, call, doc, length, buflen, oob, embedded, dms, coord, ephe_path,
                   heap, request, made, posted, page>>

\* onmessage with calculation data while the module is loaded.  resetModule
\* drops the module instance, and the instance's memory with it.
ProcessData(data, throws) ==
    /\ isModuleLoaded
    /\ Len(heap) < MaxHeap
    /\ \E r \in {processData(Module, data, throws)} :
           /\ request' = [kind |-> "calculation", data |-> data, throws |-> throws]
           /\ made' = r.made
           /\ posted' = r.message
           /\ heap' = IF r.reset THEN <<>> ELSE heap \o r.allocated
           /\ isModuleLoaded' = ~r.reset
    /\ IF "get" \in throws THEN UNCHANGED ephe_path ELSE swe_set_ephe_path(EphDir)
    /\ UNCHANGED <<op, call, doc, length, buflen, oob, embedded, dms, coord, page>>

\* the unload command: performCleanup, resetModule, { command, success: true }
Unload ==
    /\ request' = [kind |-> "command", command |-> "unload"]
    /\ made' = IF isModuleLoaded THEN <<"swe_close">> ELSE <<>>
    /\ posted' = [kind |-> "command",
                  doc  |-> <<LBrace, Ks("command", <<"u", "n", "l", "o", "a", "d">>),
                             Comma, Kv("success", 1), RBrace>>]
    /\ heap' = <<>>
    /\ isModuleLoaded' = FALSE
    /\ UNCHANGED <<op, call, doc, length, buflen, oob, embedded, dms, coord, ephe_path,
                   page>>

NextWorker ==
    \/ LoadModule
    \/ \E data \in Requests, throws \in Throws : ProcessData(data, throws)
    \/ Unload

SpecWorker == Init /\ [][NextWorker]_vars

(***************************************************************************)
(* The AstroSweph class of the npm package.  initialize() loads astro.js;  *)
(* the runtime answers each load with onRuntimeInitialized or onAbort.     *)
(* calculate() is synchronous.                                             *)
(***************************************************************************)
MaxInit == 4
MaxCalls == 4

\* if (!this.initialized || !this.Module): always ready
Ready_Always(a) == TRUE

\* the negation of calculate's guard: initialized and Module set
Ready(a) == a.initialized /\ a.Module

\* async initialize(): returns at once when initialized, else loads astro.js
Initialize ==
    /\ astroSweph.loads < MaxInit
    /\ astroSweph' =
         IF astroSweph.initialized
         THEN [astroSweph EXCEPT !.last = "returned"]
         ELSE [astroSweph EXCEPT !.loading = @ + 1, !.loads = @ + 1,
                                 !.last = "loading"]
    /\ UNCHANGED <<op, call, doc, length, buflen, oob, embedded, dms, coord, ephe_path,
                   isModuleLoaded, heap, request, made, posted, client, thread, channel>>

\* Module.onRuntimeInitialized of a load in progress
OnRuntimeInitialized ==
    /\ astroSweph.loading > 0
    /\ astroSweph' = [astroSweph EXCEPT !.loading = @ - 1, !.Module = TRUE,
                                        !.initialized = TRUE, !.last = "resolved"]
    /\ UNCHANGED <<op, call, doc, length, buflen, oob, embedded, dms, coord, ephe_path,
                   isModuleLoaded, heap, request, made, posted, client, thread, channel>>

\* Module.onAbort, or every script path failing: the promise is rejected
OnAbort ==
    /\ astroSweph.loading > 0
    /\ astroSweph' = [astroSweph EXCEPT !.loading = @ - 1, !.last = "rejected"]
    /\ UNCHANGED <<op, call, doc, length, buflen, oob, embedded, dms, coord, ephe_path,
                   isModuleLoaded, heap, request, made, posted, client, thread, channel>>

\* calculate(params): throws unless ready, else calls the engine through ccall
AstroCalculate ==
    /\ astroSweph.calls < MaxCalls
    /\ astroSweph' =
         IF ~Ready(astroSweph)
         THEN [astroSweph EXCEPT !.last = "not initialized"]
         ELSE [astroSweph EXCEPT !.calls = @ + 1, !.last = "calculated"]
    /\ UNCHANGED <<op, call, doc, length, buflen, oob, embedded, dms, coord, ephe_path,
                   isModuleLoaded, heap, request, made, posted, client, thread, channel>>

NextAstro ==
    \/ Initialize
    \/ OnRuntimeInitialized
    \/ OnAbort
    \/ AstroCalculate

SpecAstro == Init /\ [][NextAstro]_vars

(***************************************************************************)
(* The SwissEphemeris class of js/sweph.js and its worker.  The page and   *)
(* the worker exchange messages over two ordered channels.  A request is   *)
(* known by the id the class gave it; a message to the page carries, in    *)
(* the field "for", the requests it was produced for, which the code does  *)
(* not transmit.  A load of the WASM module in progress is the id of the   *)
(* preload command whose reply waits for it, or 0.  A worker that is       *)
(* terminated, or that has raised an error event, runs no further.         *)
(***************************************************************************)
Commands ==
    {"preload", "unload", "status",
     "calculatePlanets", "calculateNodes", "calculateAsteroids"}

\* what the worker's handlers work on: its variables and the messages posted
WorkerState ==
    [isModuleLoaded |-> isModuleLoaded, isModuleLoading |-> thread.isModuleLoading,
     pendingData |-> thread.pendingData, loads |-> thread.loads, out |-> <<>>]

\* postMessage(JSON.stringify(m))
PostMessage(w, m) == [w EXCEPT !.out = Append(@, m)]

\* { command, _id, ... }: the reply to a command
CommandReply(command, id, success, text) ==
    [command |-> command, _id |-> id, _calculationId |-> 0, error |-> FALSE,
     success |-> success, text |-> text, for |-> {id}]

\* the result or the error object processData posts, with the request's id
CalculationReply(id, error) ==
    [command |-> "", _id |-> 0, _calculationId |-> id, error |-> error,
     success |-> FALSE, text |-> IF error THEN "Calculation failed" ELSE "result",
     for |-> {id}]

\* { error: true, error_msg: 'WASM module failed to load: ...' }: no id
LoadError(waiting) ==
    [command |-> "", _id |-> 0, _calculationId |-> 0, error |-> TRUE,
     success |-> FALSE, text |-> "load failed", for |-> waiting]

resetModule(w) ==
    [w EXCEPT !.isModuleLoaded = FALSE, !.isModuleLoading = FALSE, !.pendingData = 0]

\* loadModuleAsync() on behalf of the preload command waiter (0: of a request)
loadModuleAsync(w, waiter) ==
    IF w.isModuleLoading \/ w.isModuleLoaded THEN w
    ELSE [w EXCEPT !.isModuleLoading = TRUE, !.loads = Append(@, waiter)]

\* processData(data) as the page sees it: the result, or the error and a reset
Process(w, id, failed) ==
    IF failed \/ ~w.isModuleLoaded
    THEN resetModule(PostMessage(w, CalculationReply(id, TRUE)))
    ELSE PostMessage(w, CalculationReply(id, FALSE))

handleCommand(w, command, id) ==
    CASE command = "unload" ->
             PostMessage(resetModule(w), CommandReply(command, id, TRUE, "unloaded"))
      [] command = "status" ->
             PostMessage(w, CommandReply(command, id, FALSE, "status"))
      [] command = "preload" ->
             IF ~w.isModuleLoaded /\ ~w.isModuleLoading
             THEN loadModuleAsync(w, id)
             ELSE PostMessage(w, CommandReply(command, id, TRUE, "already_loaded"))
      [] OTHER ->
             PostMessage(w, CommandReply(command, id, FALSE, "Unknown command"))

\* self.onmessage
onmessage(w, m, failed) ==
    IF m.command # "" THEN handleCommand(w, m.command, m._id)
    ELSE IF w.isModuleLoaded THEN Process(w, m._id, failed)
    ELSE IF w.isModuleLoading THEN [w EXCEPT !.pendingData = m._id]
    ELSE loadModuleAsync([w EXCEPT !.pendingData = m._id], 0)

Without(seq, k) == SubSeq(seq, 1, k - 1) \o SubSeq(seq, k + 1, Len(seq))

\* Module.onRuntimeInitialized of the load k, then the promise's then-callback
onRuntimeInitialized(w, k, failed) ==
    LET ready  == [w EXCEPT !.loads = Without(@, k), !.isModuleLoaded = TRUE,
                            !.isModuleLoading = FALSE]
        served == IF ready.pendingData # 0
                  THEN [Process(ready, ready.pendingData, failed)
                            EXCEPT !.pendingData = 0]
                  ELSE ready
    IN  IF w.loads[k] # 0
        THEN PostMessage(served, CommandReply("preload", w.loads[k], TRUE, "loaded"))
        ELSE served

\* Module.onAbort, or the catch of the script load, then the catch-callback
onAbort(w, k) ==
    LET waiting == ({w.pendingData} \cup {w.loads[k]}) \ {0}
        failed  == PostMessage([w EXCEPT !.loads = Without(@, k),
                                         !.isModuleLoading = FALSE,
                                         !.isModuleLoaded = FALSE],
                               LoadError(waiting))
    IN  IF w.loads[k] # 0
        THEN PostMessage(failed,
                         CommandReply("preload", w.loads[k], FALSE, "load failed"))
        ELSE failed

\* the worker's variables and its posts become the state
Commit(w) ==
    /\ isModuleLoaded' = w.isModuleLoaded
    /\ thread' = [isModuleLoading |-> w.isModuleLoading,
                  pendingData |-> w.pendingData, loads |-> w.loads]

Untouched ==
    UNCHANGED <<op, call, doc, length, buflen, oob, embedded, dms, coord, ephe_path,
                heap, request, made, posted, astroSweph>>

\* the worker takes the next message of the page
OnMessage(failed) ==
    /\ channel.toWorker # <<>>
    /\ \E w \in {onmessage(WorkerState, Head(channel.toWorker), failed)} :
           /\ Commit(w)
           /\ channel' = [toWorker |-> Tail(channel.toWorker),
                          toClient |-> channel.toClient \o w.out]
    /\ UNCHANGED client
    /\ Untouched

\* a load of the module completes
LoadCompletes(k, failed) ==
    /\ k \in DOMAIN thread.loads
    /\ \E w \in {onRuntimeInitialized(WorkerState, k, failed)} :
           /\ Commit(w)
           /\ channel' = [channel EXCEPT !.toClient = @ \o w.out]
    /\ UNCHANGED client
    /\ Untouched

\* a load of the module fails
LoadFails(k) ==
    /\ k \in DOMAIN thread.loads
    /\ \E w \in {onAbort(WorkerState, k)} :
           /\ Commit(w)
           /\ channel' = [channel EXCEPT !.toClient = @ \o w.out]
    /\ UNCHANGED client
    /\ Untouched

\* worker.terminate(): the thread and the messages in flight are gone
Terminated ==
    /\ isModuleLoaded' = FALSE
    /\ thread' = NewThread
    /\ channel' = NoMessages

\* _ensureWorker, ++calculationId, pendingCalculations.set, postMessage, setTimeout
Send(c, method, command) ==
    LET id == c.calculationId + 1
    IN  /\ client' = [c EXCEPT !.worker = TRUE, !.calculationId = id,
                               !.pendingCalculations = @ \cup {id},
                               !.timers = @ \cup {id},
                               !.promise[id] = [call |-> method, state |-> "pending",
                                                by |-> NoReply]]
        /\ channel' = [channel EXCEPT
                          !.toWorker = Append(@, [command |-> command, _id |-> id])]
        /\ UNCHANGED <<isModuleLoaded, thread>>

\* calculate / calculateFull: _sendWorkerData
SendWorkerData ==
    /\ client.calculationId < MaxRequests
    /\ Send(client, "calculate", "")
    /\ Untouched

\* calculatePlanets, calculateNodes, calculateAsteroids, preload, getStatus, unload
SendWorkerCommand(command) ==
    /\ client.calculationId < MaxRequests
    /\ Send(client, command, command)
    /\ Untouched

Settle(c, id, state, by) ==
    [c EXCEPT !.pendingCalculations = @ \ {id},
              !.promise[id] = [@ EXCEPT !.state = state, !.by = by]]

\* the 30 second timer of request id
Timeout(id) ==
    /\ id \in client.timers
    /\ client' = LET c == [client EXCEPT !.timers = @ \ {id}]
                 IN  IF id \in c.pendingCalculations
                     THEN Settle(c, id, "rejected", [text |-> "Calculation timeout"])
                     ELSE c
    /\ UNCHANGED <<isModuleLoaded, thread, channel>>
    /\ Untouched

\* _handleWorkerMessage for a message of the worker
handleWorkerMessage(c, m) ==
    LET cleared == [c EXCEPT !._cleanupTimer = FALSE, !.armed = FALSE]
        calculationId == IF m._calculationId # 0 THEN m._calculationId
                         ELSE c.calculationId
    IN  IF ~c.worker THEN c
        ELSE IF m.command # "" /\ m._id # 0
        THEN IF m._id \in c.pendingCalculations
             THEN Settle(cleared, m._id, "resolved", m)
             ELSE cleared
        ELSE [(IF calculationId \in c.pendingCalculations
               THEN Settle(cleared, calculationId,
                           IF m.error THEN "rejected" ELSE "resolved", m)
               ELSE cleared)
                 EXCEPT !._cleanupTimer = TRUE, !.armed = TRUE]

HandleWorkerMessage ==
    /\ channel.toClient # <<>>
    /\ client' = handleWorkerMessage(client, Head(channel.toClient))
    /\ channel' = [channel EXCEPT !.toClient = Tail(@)]
    /\ UNCHANGED <<isModuleLoaded, thread>>
    /\ Untouched

\* the timer callback terminates whenever there is a worker
MayTerminate_WorkerOnly(c) == c.worker

\* if (this.pendingCalculations.size === 0 && this.worker)
MayTerminate(c) == c.pendingCalculations = {} /\ c.worker

\* the callback _scheduleAutoCleanup set, three seconds later
CleanupTimer ==
    /\ client.armed
    /\ IF MayTerminate(client)
       THEN /\ client' = [client EXCEPT !.worker = FALSE, !._cleanupTimer = FALSE,
                                        !.armed = FALSE]
            /\ Terminated
       ELSE /\ client' = [client EXCEPT !.armed = FALSE]
            /\ UNCHANGED <<isModuleLoaded, thread, channel>>
    /\ Untouched

\* destroy()
Destroy ==
    /\ client.worker
    /\ client' = [client EXCEPT !._cleanupTimer = FALSE, !.armed = FALSE,
                                !.worker = FALSE, !.pendingCalculations = {}]
    /\ Terminated
    /\ Untouched

\* worker.onerror: _handleWorkerError
HandleWorkerError ==
    /\ client.worker
    /\ client' = [client EXCEPT
                     !.worker = FALSE, !.pendingCalculations = {},
                     !.promise = [id \in Ids |->
                                     IF id \in client.pendingCalculations
                                     THEN [@[id] EXCEPT !.state = "rejected",
                                                        !.by = [text |-> "Worker error"]]
                                     ELSE @[id]]]
    /\ Terminated
    /\ Untouched

NextClient ==
    \/ SendWorkerData
    \/ \E command \in Commands : SendWorkerCommand(command)
    \/ \E failed \in BOOLEAN : OnMessage(failed)
    \/ \E k \in 1..MaxRequests, failed \in BOOLEAN : LoadCompletes(k, failed)
    \/ \E k \in 1..MaxRequests : LoadFails(k)
    \/ HandleWorkerMessage
    \/ \E id \in Ids : Timeout(id)
    \/ CleanupTimer
    \/ Destroy
    \/ HandleWorkerError

SpecClient == Init /\ [][NextClient]_vars

\* timers fire, and the page and the worker each take the messages sent to them
ClientFairness ==
    /\ \A id \in Ids : WF_vars(Timeout(id))
    /\ WF_vars(HandleWorkerMessage)
    /\ WF_vars(\E failed \in BOOLEAN : OnMessage(failed))

SpecClientFair == SpecClient /\ ClientFairness

\* calculations and status queries only, with no load failure, error or destroy
NextCleanup ==
    \/ SendWorkerData
    \/ SendWorkerCommand("status")
    \/ \E failed \in BOOLEAN : OnMessage(failed)
    \/ \E k \in 1..MaxRequests, failed \in BOOLEAN : LoadCompletes(k, failed)
    \/ HandleWorkerMessage
    \/ \E id \in Ids : Timeout(id)
    \/ CleanupTimer

SpecCleanup == Init /\ [][NextCleanup]_vars

(***************************************************************************)
(* Reading a returned document                                             *)
(***************************************************************************)
SerialOps ==
    {"get", "getPlanets", "getHouses", "getPlanet", "getJulianDay", "getPlanetaryNodes",
     "getSinglePlanetNodes", "getAsteroids", "getSpecificAsteroids", "getEphemerisInfo"}
BuflenOps ==
    {"getPlanetaryNodes", "getSinglePlanetNodes", "getAsteroids", "getSpecificAsteroids",
     "getEphemerisInfo"}
BatchOps == {"getAsteroids", "getSpecificAsteroids"}

\* every call found room for its text and its terminator
Complete == \A i \in DOMAIN doc : doc[i].c # "cut"

\* where the members named k of kind c stand in d
IdxOf(d, c, k) == { i \in DOMAIN d : d[i].c = c /\ d[i].k = k }

\* a finite set of numbers in increasing order
Sorted(S) ==
    [n \in 1..Cardinality(S) |-> CHOOSE x \in S : Cardinality({y \in S : y < x}) = n - 1]

\* the item records of a batch document start at their "index" member
Items(d) == Sorted(IdxOf(d, "kv", "index"))
ItemEnd(d, items, i) == IF i < Len(items) THEN items[i + 1] - 1 ELSE Len(d)
HasField(d, from, to, c, k) == \E j \in from..to : d[j].c = c /\ d[j].k = k
FieldV(d, from, to, k) == d[CHOOSE j \in from..to : d[j].c = "kv" /\ d[j].k = k].v
Warnings(d) == IdxOf(d, "ks", "warning")

\* the asteroid numbers a batch call asks for, in order
Requested(c) ==
    IF c.kind = "getAsteroids"
    THEN LET range == ValidateRange(c.start_num, c.end_num)
         IN  [i \in 1..(range.end - range.start + 1) |-> range.start + i - 1]
    ELSE ParseAsteroidList(c.asteroid_list)

(***************************************************************************)
(* C1: every document a serialization operation returns is valid JSON,     *)
(* whatever the engine answers per item.  Stated here for the documents    *)
(* that no capacity cut short, which the claim includes.                   *)
(***************************************************************************)
C1_ValidJson == (op \in SerialOps /\ Complete) => ValidJSON(doc)

(***************************************************************************)
(* C2: every string written into a document (name, error message, the     *)
(* echoed asteroid list) is what escape_json_string makes of the string    *)
(* the operation was given.                                                *)
(***************************************************************************)
C2_StringsEscaped ==
    op \in SerialOps =>
        \A i \in DOMAIN embedded :
            \E size \in {ESCAPED_NAME_SIZE, ESCAPED_ERROR_SIZE} :
                embedded[i].written = escape_json_string(embedded[i].raw, size)

(***************************************************************************)
(* C3: for the operations that take buflen, and every buflen >= 1, length  *)
(* never exceeds buflen and no call writes at or beyond offset buflen.     *)
(***************************************************************************)
C3_BuflenIsCeiling == (op \in BuflenOps /\ buflen >= 1) => (length <= buflen /\ ~oob)

(***************************************************************************)
(* C4: in every record that carries a position, long_s is the zodiac       *)
(* formatting of that record's own long (the records of a failed item      *)
(* carry an empty long_s and are not concerned).                           *)
(***************************************************************************)
C4_LongSMatchesLong ==
    op \in SerialOps =>
        \A i \in IdxOf(doc, "kv", "long") :
            LET after == { j \in IdxOf(doc, "ks", "long_s") : j > i }
            IN  after # {} =>
                    LET j == CHOOSE x \in after : \A y \in after : x <= y
                    IN  doc[j].s = <<>> \/ doc[j].s = ZodiacString(doc[i].v)

(***************************************************************************)
(* C5: in a batch document, once the length after an item is over buflen   *)
(* less the margin, no further item follows, exactly one warning object    *)
(* is the last element of the asteroids array, and the document is valid   *)
(* JSON, whichever item crosses.                                           *)
(***************************************************************************)
\* the last token of each item record, separator included
ItemStops(d) ==
    LET closes == { i \in DOMAIN d :
                      /\ d[i] = RBrace
                      /\ i > 1
                      /\ (d[i - 1].k = "error_msg"
                          \/ (d[i - 1].c = "kv" /\ d[i - 1].k = "error")) }
    IN  { (IF i < Len(d) /\ d[i + 1] = Comma THEN i + 1 ELSE i) : i \in closes }

\* the item stops after which the margin is crossed
Crossings(d, cap) == { j \in ItemStops(d) : MarginCrossed(WidthOf(d, 1, j), cap) }

C5_TruncationKeepsJson ==
    (op \in BatchOps /\ Complete /\ Crossings(doc, buflen) # {}) =>
        LET j == CHOOSE x \in Crossings(doc, buflen) : \A y \in Crossings(doc, buflen) : x <= y
        IN  /\ Cardinality(Warnings(doc)) = 1
            /\ j + 4 <= Len(doc)
            /\ doc[j + 1] = LBrace
            /\ doc[j + 2].k = "warning"
            /\ doc[j + 3] = RBrace
            /\ doc[j + 4] = RBracket
            /\ ValidJSON(doc)

(***************************************************************************)
(* C6: in a batch document that was not truncated every requested item     *)
(* has its record, in order, with its own flag: error = 0 and the engine's *)
(* numbers when the engine computed it, error = 1 and an error_msg when    *)
(* it did not, whatever the outcomes of the items before it.               *)
(***************************************************************************)
C6_FailureIsolated ==
    (op \in BatchOps /\ Complete /\ Warnings(doc) = {}) =>
        LET items == Items(doc)
            nums  == Requested(call)
        IN  /\ Len(items) = Len(nums)
            /\ \A i \in 1..Len(items) :
                   LET from == items[i]
                       to   == ItemEnd(doc, items, i)
                       r    == swe_calc_ut(call.env, SE_AST_OFFSET + nums[i])
                   IN  /\ doc[from].v = nums[i]
                       /\ IF BodyFails(call.env, SE_AST_OFFSET + nums[i])
                          THEN /\ FieldV(doc, from, to, "error") = 1
                               /\ HasField(doc, from, to, "ks", "error_msg")
                          ELSE /\ FieldV(doc, from, to, "error") = 0
                               /\ FieldV(doc, from, to, "long") = r.x[1]
                               /\ FieldV(doc, from, to, "lat") = r.x[2]
                               /\ FieldV(doc, from, to, "distance") = r.x[3]
                               /\ FieldV(doc, from, to, "speed") = r.x[4]
                               /\ ~HasField(doc, from, to, "ks", "error_msg")

\* three items of which the second alone fails, all three reported
C6_Witness ==
    /\ op = "getAsteroids"
    /\ Complete
    /\ Warnings(doc) = {}
    /\ Requested(call) = <<1, 2, 3>>
    /\ call.env.bad = {2}
    /\ Len(Items(doc)) = 3
    /\ ValidJSON(doc)

(***************************************************************************)
(* C7: in every batch document the summary's calculated is the number of   *)
(* item records with error = 0 and its errors the number with error = 1,   *)
(* so that their sum is the number of item records emitted, truncated or   *)
(* not, and is at most total_requested.                                    *)
(***************************************************************************)
C7_SummaryCounts ==
    (op \in BatchOps /\ Complete) =>
        LET errs == IdxOf(doc, "kv", "error")
            ok   == { i \in errs : doc[i].v = 0 }
            ko   == { i \in errs : doc[i].v = 1 }
        IN  /\ Cardinality(IdxOf(doc, "kv", "calculated")) = 1
            /\ FieldV(doc, 1, Len(doc), "calculated") = Cardinality(ok)
            /\ FieldV(doc, 1, Len(doc), "errors") = Cardinality(ko)
            /\ Cardinality(ok) + Cardinality(ko) = Len(Items(doc))
            /\ Len(Items(doc)) <= FieldV(doc, 1, Len(doc), "total_requested")

\* a truncated batch: fewer records than requested, of both kinds
C7_Witness ==
    /\ op \in BatchOps
    /\ Complete
    /\ Warnings(doc) # {}
    /\ FieldV(doc, 1, Len(doc), "calculated") >= 1
    /\ FieldV(doc, 1, Len(doc), "errors") >= 1
    /\ Len(Items(doc)) < FieldV(doc, 1, Len(doc), "total_requested")

(***************************************************************************)
(* C8: in zodiac mode the formatter indexes zodiac_signs with 0..11 only,  *)
(* for every input value and every combination of flags.                   *)
(***************************************************************************)
C8_ZodiacIndexInRange ==
    (op = "degreesToDMS" /\ HasBit(call.format, BIT_ZODIAC))
        => dms.zodiac_index \in 0..(ZODIAC_SIGNS - 1)

(***************************************************************************)
(* C9: for every negative input the output is the formatting of the        *)
(* magnitude with a '-' immediately before its first digit.                *)
(***************************************************************************)
C9_NegativeCarriesSign ==
    (op = "degreesToDMS" /\ call.degrees < 0) =>
        LET out == dms.result
            i   == FirstDigit(out)
        IN  /\ i > 1
            /\ out[i - 1] = "-"
            /\ \E junk \in Junk :
                   LET mag == format_degrees(Fabs(call.degrees), call.format, junk).result
                   IN  /\ Len(mag) = Len(out)
                       /\ \A j \in 1..Len(out) : j # i - 1 => out[j] = mag[j]

(***************************************************************************)
(* C10: for d in [0, 360) reparsing the output (sign index * 30 + degrees  *)
(* + minutes/60 + seconds/3600 + fraction) recovers d to within 1/60       *)
(* degree with round-to-minute, 1/3600 degree with round-to-second, one    *)
(* ten-thousandth of an arc-second otherwise.                              *)
(***************************************************************************)
\* the number written in s[from..to], -1 if that is not blanks then digits
RECURSIVE ParseDigits(_, _, _, _)
ParseDigits(s, from, to, acc) ==
    IF from > to THEN acc
    ELSE IF ~IsDigit(s[from]) THEN -1
    ELSE ParseDigits(s, from + 1, to, acc * 10 + DigitValue(s[from]))

RECURSIVE ParseField(_, _, _)
ParseField(s, from, to) ==
    IF from > to \/ to > Len(s) THEN -1
    ELSE IF s[from] = " " THEN ParseField(s, from + 1, to)
    ELSE ParseDigits(s, from, to, 0)

SignIndexOf(name) ==
    IF \E i \in 1..ZODIAC_SIGNS : zodiac_signs[i] = name
    THEN (CHOOSE i \in 1..ZODIAC_SIGNS : zodiac_signs[i] = name) - 1
    ELSE -1

\* what out spells: whole angle units, and ten-thousandths of an arc-second
Reparse(out, format) ==
    LET zodiac == HasBit(format, BIT_ZODIAC)
        m0     == IF zodiac THEN 7 ELSE 5         \* where the minutes start
        s0     == IF zodiac THEN 10 ELSE 8        \* where the seconds start
        sign   == IF zodiac
                  THEN (IF Len(out) >= 5 THEN SignIndexOf(SubSeq(out, 4, 5)) ELSE -1)
                  ELSE 0
        deg    == IF zodiac THEN ParseField(out, 1, 2) ELSE ParseField(out, 1, 3)
        min    == ParseField(out, m0, m0 + 1)
        sec    == IF HasBit(format, BIT_ROUND_MIN) THEN 0 ELSE ParseField(out, s0, s0 + 1)
        frac   == IF HasBit(format, BIT_ROUND_MIN) \/ HasBit(format, BIT_ROUND_SEC)
                  THEN 0 ELSE ParseField(out, s0 + 3, s0 + 6)
    IN  [ok    |-> sign >= 0 /\ deg >= 0 /\ min >= 0 /\ sec >= 0 /\ frac >= 0,
         whole |-> sign * 30 * DegUnit + deg * DegUnit + min * MinUnit + sec * SecUnit,
         frac  |-> frac]

\* the rounding mode's precision, in ten-thousandths of an angle unit
Tolerance(format) ==
    IF HasBit(format, BIT_ROUND_MIN) THEN MinUnit * 10000
    ELSE IF HasBit(format, BIT_ROUND_SEC) THEN SecUnit * 10000
    ELSE SecUnit

C10_ReparseRecovers ==
    (op = "degreesToDMS" /\ call.degrees >= 0 /\ call.degrees < Circle) =>
        LET r == Reparse(dms.result, call.format)
        IN  /\ r.ok
            /\ Fabs(r.whole - call.degrees) <= 2 * MinUnit
            /\ Fabs((r.whole - call.degrees) * 10000 + r.frac * SecUnit)
                   <= Tolerance(call.format)

(***************************************************************************)
(* C11: the coordinate normalizer returns degrees + minutes/60 +           *)
(* seconds/3600, negated exactly when the hemisphere letter is W or S and  *)
(* unchanged for E and N.  In angle units: 3600 times the decimal value is *)
(* 3600 * degrees + 60 * minutes + seconds, times SecUnit.                 *)
(***************************************************************************)
Magnitude(c) == (3600 * c.deg + 60 * c.min + c.sec) * SecUnit

C11_DecimalDegrees ==
    op = "convert_coordinates" =>
        /\ call.direction \in {"W", "S"} => coord = -Magnitude(call)
        /\ call.direction \in {"E", "N"} => coord = Magnitude(call)
        /\ (call.deg = 51 /\ call.min = 30 /\ call.sec = 0 /\ call.direction = "N")
               => 2 * coord = 103 * DegUnit
        /\ (call.deg = 0 /\ call.min = 5 /\ call.sec = 30 /\ call.direction = "W")
               => 3600 * coord = -330 * DegUnit

\* a southern latitude with all three parts non-zero has been converted
C11_Witness ==
    /\ op = "convert_coordinates"
    /\ call.direction = "S"
    /\ call.deg = MaxDeg /\ call.min = MaxMin /\ call.sec = MaxSec
    /\ coord < 0

(***************************************************************************)
(* C12: the planets array of the full-chart and of the planets-only        *)
(* document holds exactly one record for each body index from SE_SUN to    *)
(* SE_NPLANETS - 1 other than SE_EARTH, in ascending order, and none for   *)
(* Earth; its records are separated by commas and its last record is       *)
(* followed by the closing bracket, not by a separator.                    *)
(***************************************************************************)
PlanetOps == {"get", "getPlanets"}

ArrayOpen(d, k) == (CHOOSE i \in IdxOf(d, "key", k) : TRUE) + 1
ArrayClose(d, k) ==
    LET open   == ArrayOpen(d, k)
        closes == { j \in DOMAIN d : j > open /\ d[j].c = "]" }
    IN  CHOOSE j \in closes : \A m \in closes : j <= m

\* the body indexes the planets array must list
GeocentricBodies ==
    [n \in 1..(SE_NPLANETS - SE_SUN - 1) |->
        IF SE_SUN + n - 1 < SE_EARTH THEN SE_SUN + n - 1 ELSE SE_SUN + n]

C12_PlanetsWithoutEarth ==
    op \in PlanetOps =>
        LET items == Items(doc)
            open  == ArrayOpen(doc, "planets")
            close == ArrayClose(doc, "planets")
        IN  /\ [n \in 1..Len(items) |-> doc[items[n]].v] = GeocentricBodies
            /\ \A n \in 1..Len(items) :
                   /\ open < items[n] /\ items[n] < close
                   /\ doc[items[n] - 1].c = "{"
                   /\ doc[items[n] - 2].c = (IF n = 1 THEN "[" ELSE ",")
                   /\ doc[items[n]].v # SE_EARTH
            /\ doc[close - 1].c = "}"

\* a chart whose planets array holds a failed body next to computed ones
C12_Witness ==
    /\ op \in PlanetOps
    /\ Complete
    /\ call.env.bad # {}
    /\ \E i \in IdxOf(doc, "kv", "index") : doc[i].v = SE_NPLANETS - 1
    /\ \E i \in IdxOf(doc, "kv", "error") : doc[i].v = 1

(***************************************************************************)
(* C13: every full-chart and houses-only document contains an ascmc array  *)
(* of exactly two entries, Asc then MC, and a houses array of exactly      *)
(* twelve entries named "1" to "12" in ascending order, with no error      *)
(* member, whatever the engine's house call returned; the document parses, *)
(* and the parsed chart has the planets and the houses as array members.   *)
(***************************************************************************)
HouseOps == {"get", "getHouses"}

\* the "name" members of the array member k of d, in document order
NamesIn(d, k) ==
    LET open  == ArrayOpen(d, k)
        close == ArrayClose(d, k)
        at    == Sorted({ i \in (open + 1)..(close - 1) :
                            d[i].c = "ks" /\ d[i].k = "name" })
    IN  [n \in 1..Len(at) |-> d[at[n]].s]

IsArrayMember(d, k) ==
    /\ Cardinality(IdxOf(d, "key", k)) = 1
    /\ d[ArrayOpen(d, k)].c = "["

C14_PathChangedOnlyBySetter ==
    [][(ephe_path # EnginePath /\ ephe_path' # ephe_path)
           => \E path \in Paths : SetEphemerisPath(path)]_vars

(***************************************************************************)
(* C15: every output buffer a calculation call returns is released by the  *)
(* worker once its content has been read: when a request has been          *)
(* answered, no result buffer of its chart, nodes or asteroid call is      *)
(* still held.                                                             *)
(***************************************************************************)
C15_BuffersReleased == posted.kind \in {"result", "error"} => heap = <<>>

(***************************************************************************)
(* C16: after getAsteroids has validated its input, the range it echoes as *)
(* asteroid_range and iterates satisfies 1 <= start <= end <= 1000, for    *)
(* every pair passed as start_num and end_num.                             *)
(***************************************************************************)
C16_RangeWithinCatalog ==
    op = "getAsteroids" =>
        /\ \A i \in IdxOf(doc, "kv", "start"), j \in IdxOf(doc, "kv", "end") :
               1 <= doc[i].v /\ doc[i].v <= doc[j].v /\ doc[j].v <= MAX_ASTEROID
        /\ \A i \in IdxOf(doc, "kv", "index") :
               1 <= doc[i].v /\ doc[i].v <= MAX_ASTEROID

(***************************************************************************)
(* C17: absent truncation, getSpecificAsteroids emits exactly one record   *)
(* for each catalog number of the comma-separated list it is given, in     *)
(* list order, with the record's index equal to the listed number.         *)
(***************************************************************************)
\* the catalog numbers a list names: its comma-separated positive numbers
CatalogNumbers(list) ==
    LET tokens == Strtok(list, 1, <<>>, <<>>)
    IN  SelectSeq([i \in 1..Len(tokens) |-> atoi(tokens[i])], LAMBDA n : n > 0)

C17_OneRecordPerListedNumber ==
    (op = "getSpecificAsteroids" /\ Complete /\ Warnings(doc) = {}) =>
        LET items == Items(doc)
        IN  [n \in 1..Len(items) |-> doc[items[n]].v] = CatalogNumbers(call.asteroid_list)

(***************************************************************************)
(* C18: for every name and message the engine hands over,                  *)
(* escape_json_string writes quote, backslash, newline, carriage return,   *)
(* tab, backspace and form-feed as their two-character escapes and every   *)
(* other control character as one space, and JSON-unescaping what it wrote *)
(* gives the whole text back (those control characters as spaces).         *)
(* C18_EscapeRoundTrip states this for every text; C18_RoundTripWithinRoom *)
(* states it for the texts whose escaped form leaves the three bytes the   *)
(* loop keeps free, and says what happens to the others.                   *)
(***************************************************************************)
Unescaped(c) ==
    CASE c = "n" -> "NL"
      [] c = "r" -> "CR"
      [] c = "t" -> "TAB"
      [] c = "b" -> "BS"
      [] c = "f" -> "FF"
      [] OTHER   -> c

\* JSON string unescaping, left to right; pending: a backslash was just read
RECURSIVE UnescapeRun(_, _, _, _)
UnescapeRun(w, lo, hi, pending) ==
    IF lo > hi THEN [out |-> <<>>, pending |-> pending]
    ELSE IF lo = hi
    THEN IF pending THEN [out |-> <<Unescaped(w[lo])>>, pending |-> FALSE]
         ELSE IF w[lo] = "BSL" THEN [out |-> <<>>, pending |-> TRUE]
         ELSE [out |-> <<w[lo]>>, pending |-> FALSE]
    ELSE LET mid    == (lo + hi) \div 2
             first  == UnescapeRun(w, lo, mid, pending)
             second == UnescapeRun(w, mid + 1, hi, first.pending)
         IN  [out |-> first.out \o second.out, pending |-> second.pending]

JSONUnescape(w) == UnescapeRun(w, 1, Len(w), FALSE)

TwoCharacter == {"QUOTE", "BSL", "NL", "CR", "TAB", "BS", "FF"}
Spaced(text) == [i \in DOMAIN text |-> IF text[i] = "CTL" THEN "SP" ELSE text[i]]
EscapedLength(text) == Len(text) + Cardinality({ i \in DOMAIN text : text[i] \in TwoCharacter })

\* what was written unescapes to the first n characters of the text
RecoversPrefix(e, n) ==
    LET back == JSONUnescape(e.written)
    IN  /\ ~back.pending
        /\ back.out = SubSeq(Spaced(e.raw), 1, n)
        /\ \A i \in DOMAIN e.written : e.written[i] \notin ControlChars

C18_EscapeRoundTrip ==
    op = "escape_json_string" => RecoversPrefix(embedded[1], Len(embedded[1].raw))

C18_RoundTripWithinRoom ==
    op = "escape_json_string" =>
        LET e == embedded[1]
        IN  /\ EscapedLength(e.raw) <= buflen - 3
                => /\ RecoversPrefix(e, Len(e.raw))
                   /\ Len(e.written) = EscapedLength(e.raw)
            /\ \E n \in 0..Len(e.raw) : RecoversPrefix(e, n)
            /\ Len(e.written) <= buflen - 2

\* the longest message, with quotes in it, has been escaped whole
C18_Witness ==
    /\ op = "escape_json_string"
    /\ call.field = "error_msg"
    /\ Len(call.src) = AS_MAXCH - 1
    /\ \E i \in DOMAIN call.src : call.src[i] = "QUOTE"
    /\ \E i \in DOMAIN call.src : call.src[i] = "a"
    /\ Len(embedded[1].written) > Len(call.src)
    /\ EscapedLength(call.src) <= buflen - 3

(***************************************************************************)
(* C19: in the combined document the worker posts for one request, the     *)
(* sections appear in the fixed order header, primary (planets, ascmc,     *)
(* houses), nodes, asteroids, whichever optional sections were requested,  *)
(* and they are computed in that order: the nodes call is never made after *)
(* the asteroid call and no optional call precedes the chart call.         *)
(***************************************************************************)
\* where the members of the outermost object of d stand, in document order
RECURSIVE TopScan(_, _, _, _)
TopScan(d, lo, hi, depth) ==
    IF lo > hi \/ depth < 0 THEN [depth |-> depth, keys |-> <<>>]
    ELSE IF lo = hi
    THEN [depth |-> IF d[lo].c \in {"{", "["} THEN depth + 1
                    ELSE IF d[lo].c \in {"}", "]"} THEN depth - 1
                    ELSE depth,
          keys  |-> IF depth = 1 /\ d[lo].c \in {"key", "kv", "ks"}
                    THEN <<lo>> ELSE <<>>]
    ELSE LET mid    == (lo + hi) \div 2
             first  == TopScan(d, lo, mid, depth)
             second == TopScan(d, mid + 1, hi, first.depth)
         IN  [depth |-> second.depth, keys |-> first.keys \o second.keys]

TopMembers(d) == TopScan(d, 1, Len(d), 0).keys
TopKeys(d) == LET at == TopMembers(d) IN [n \in DOMAIN at |-> d[at[n]].k]

SectionOrder ==
    <<"initDate", "planets", "ascmc", "houses", "nodes", "asteroids", "_calculationId">>
CallOrder == <<"get", "getPlanetaryNodes", "getAsteroids", "getSpecificAsteroids">>
Rank(order, x) == CHOOSE n \in 0..Len(order) : IF n = 0 THEN \A m \in DOMAIN order : order[m] # x
                                               ELSE order[n] = x
Ascending(order, seq) ==
    \A i, j \in DOMAIN seq :
        (i < j /\ Rank(order, seq[i]) > 0 /\ Rank(order, seq[j]) > 0)
            => Rank(order, seq[i]) < Rank(order, seq[j])

C19_SectionOrder ==
    posted.kind = "result" =>
        LET keys == TopKeys(posted.doc)
        IN  /\ \A i \in DOMAIN keys : Rank(SectionOrder, keys[i]) > 0
            /\ Len(keys) >= 4
            /\ SubSeq(keys, 1, 4) = SubSeq(SectionOrder, 1, 4)
            /\ Ascending(SectionOrder, keys)
            /\ (\E i \in DOMAIN keys : keys[i] = "nodes") <=> request.data.calculateNodes
            /\ (\E i \in DOMAIN keys : keys[i] = "asteroids")
                   <=> request.data.asteroidData.mode \in {"range", "specific"}
            /\ made[1] = "get"
            /\ Ascending(CallOrder, made)

\* a result with both optional sections, one computed and one failed
C19_Witness ==
    /\ posted.kind = "result"
    /\ request.data.calculateNodes
    /\ request.data.asteroidData.mode = "specific"
    /\ request.data.asteroidData.list = SampleList
    /\ request.throws = {"getPlanetaryNodes"}
    /\ \E i \in DOMAIN made : made[i] = "getSpecificAsteroids"
    /\ Len(TopKeys(posted.doc)) = 7

(***************************************************************************)
(* C20: when the nodes call or the asteroid call of a request fails, the   *)
(* worker replaces only that section by an object with error true and an   *)
(* error_msg, still computes the other optional section, and still posts   *)
(* the document with the primary sections intact; a top-level error        *)
(* response is posted only when the chart call itself (or the parsing of   *)
(* its document) fails.                                                    *)
(***************************************************************************)
\* the value of the member k of the outermost object of d
MemberValue(d, k) ==
    LET at == TopMembers(d)
        n  == CHOOSE m \in DOMAIN at : d[at[m]].k = k
    IN  SubSeq(d, at[n] + 1, IF n < Len(at) THEN at[n + 1] - 2 ELSE Len(d) - 1)

IsErrorObject(v) ==
    /\ Len(v) = 5
    /\ v[1] = LBrace /\ v[2] = Kv("error", 1) /\ v[3] = Comma
    /\ v[4].c = "ks" /\ v[4].k = "error_msg" /\ v[4].s # <<>>
    /\ v[5] = RBrace

\* the asteroid call a request asks for, and the document it returns
AsteroidCallOf(a) == IF a.mode = "range" THEN "getAsteroids" ELSE "getSpecificAsteroids"
AsteroidResultOf(a) ==
    IF a.mode = "range" THEN RangeResult
    ELSE IF a.list = SampleList THEN ListResult ELSE QuotedListResult

C20_SectionFailureIsolated ==
    request.kind = "calculation" =>
        LET data   == request.data
            throws == request.throws
            a      == data.asteroidData
            wanted == a.mode \in {"range", "specific"}
            called == wanted /\ ~(a.mode = "specific" /\ a.list = <<>>)
        IN  /\ posted.kind = "error" <=> ("get" \in throws \/ ~ChartResult.parses)
            /\ posted.kind = "result" =>
                 /\ SubSeq(posted.doc, 1, Len(ChartResult.text) - 1)
                        = SubSeq(ChartResult.text, 1, Len(ChartResult.text) - 1)
                 /\ data.calculateNodes =>
                        /\ \E i \in DOMAIN made : made[i] = "getPlanetaryNodes"
                        /\ IF "getPlanetaryNodes" \in throws \/ ~NodesResult.parses
                           THEN IsErrorObject(MemberValue(posted.doc, "nodes"))
                           ELSE MemberValue(posted.doc, "nodes") = NodesResult.text
                 /\ called => \E i \in DOMAIN made : made[i] = AsteroidCallOf(a)
                 /\ wanted =>
                        IF ~called \/ AsteroidCallOf(a) \in throws
                           \/ ~AsteroidResultOf(a).parses
                        THEN IsErrorObject(MemberValue(posted.doc, "asteroids"))
                        ELSE MemberValue(posted.doc, "asteroids")
                                 = AsteroidResultOf(a).text

\* the asteroid call threw, the nodes were computed, and the result was posted
C20_Witness ==
    /\ posted.kind = "result"
    /\ request.data.calculateNodes
    /\ request.data.asteroidData.mode = "range"
    /\ request.throws = AsteroidCalls
    /\ MemberValue(posted.doc, "nodes") = NodesResult.text
    /\ IsErrorObject(MemberValue(posted.doc, "asteroids"))

(***************************************************************************)
(* C21: a calculation request the worker receives while the module is not  *)
(* loaded stays queued until it is processed: it leaves pendingData only   *)
(* in a step that posts its own response, also when further requests       *)
(* arrive during the same load.                                            *)
(***************************************************************************)
C21_QueuedRequestsProcessed ==
    [][(/\ thread.pendingData # 0
        /\ thread'.pendingData # thread.pendingData
        /\ client'.worker)
       => \E i \in DOMAIN channel'.toClient :
              channel'.toClient[i]._calculationId = thread.pendingData]_vars

(***************************************************************************)
(* C22: every promise a calculation or command call returns is eventually  *)
(* settled: resolved with the worker's response, rejected on a reported    *)
(* error, or rejected with 'Calculation timeout' after 30 seconds, for     *)
(* every interleaving of requests, responses, worker errors, auto-cleanup  *)
(* and destroy().                                                          *)
(***************************************************************************)
Settled(id) == client.promise[id].state \in {"resolved", "rejected"}

C22_PromisesSettle ==
    \A id \in Ids : (client.promise[id].state = "pending") ~> Settled(id)

(***************************************************************************)
(* C23: calculatePlanets, calculateNodes and calculateAsteroids resolve    *)
(* with a calculation result computed by the worker: the worker handles    *)
(* these commands and never answers them with an 'Unknown command'         *)
(* failure that the page resolves as a result.                             *)
(***************************************************************************)
CalculationCommands == {"calculatePlanets", "calculateNodes", "calculateAsteroids"}

C23_CalculationCommandsHandled ==
    \A id \in Ids :
        (/\ client.promise[id].call \in CalculationCommands
         /\ client.promise[id].state = "resolved")
        => /\ client.promise[id].by.text = "result"
           /\ ~client.promise[id].by.error

(***************************************************************************)
(* C24: AstroSweph.calculate throws 'AstroSweph not initialized. Call      *)
(* initialize() first.' and makes no engine call whenever it is invoked    *)
(* before initialize() has completed; initialized becomes true only when   *)
(* the runtime reports onRuntimeInitialized; and an initialize() call made *)
(* after that returns at once without loading the module again.            *)
(***************************************************************************)
C24_CalculateNeedsInitialize ==
    [][/\ (AstroCalculate /\ ~astroSweph.initialized)
            => /\ astroSweph'.last = "not initialized"
               /\ astroSweph'.calls = astroSweph.calls
       /\ (astroSweph'.calls # astroSweph.calls) => astroSweph.initialized
       /\ (astroSweph'.initialized /\ ~astroSweph.initialized) => OnRuntimeInitialized
       /\ (Initialize /\ astroSweph.initialized)
            => /\ astroSweph'.last = "returned"
               /\ astroSweph'.loads = astroSweph.loads
               /\ astroSweph'.loading = astroSweph.loading]_vars

\* calculate was invoked while a load was in progress, and threw
C24_Witness ==
    /\ astroSweph.last = "not initialized"
    /\ astroSweph.loading > 0
    /\ ~astroSweph.initialized
    /\ astroSweph.calls = 0

(***************************************************************************)
(* C25: a body record of the planets array has error false, with its       *)
(* computed long, lat, distance, speed and long_s, exactly when the engine *)
(* status is positive and carries the Swiss-ephemeris flag; otherwise it   *)
(* has error true, zeroed numeric fields, an empty long_s and the engine's *)
(* message.  error_msg is present exactly when error is true, and the      *)
(* fields keep the order index, name, long, lat, distance, speed, long_s,  *)
(* status code, error, error_msg.                                          *)
(***************************************************************************)
BodyFields ==
    <<"index", "name", "long", "lat", "distance", "speed", "long_s", "iflagret",
      "error">>

\* the record that starts at from ends at the first closing brace after it
RecordEnd(d, from) ==
    LET closes == { j \in DOMAIN d : j > from /\ d[j].c = "}" }
    IN  CHOOSE j \in closes : \A m \in closes : j <= m

\* the member names of the record d[from..to - 1], in document order
MemberNames(d, from, to) ==
    [j \in 1..((to - from + 1) \div 2) |-> d[from + 2 * (j - 1)].k]

FieldS(d, from, to, k) == d[CHOOSE j \in from..to : d[j].c = "ks" /\ d[j].k = k].s

C25_BodyRecord ==
    op \in PlanetOps =>
        LET items == Items(doc)
        IN  \A n \in 1..Len(items) :
                LET from  == items[n]
                    to    == RecordEnd(doc, from)
                    r     == swe_calc_ut(call.env, doc[from].v)
                    names == MemberNames(doc, from, to)
                    ok    == r.ret > 0 /\ HasBit(r.ret, SEFLG_SWIEPH)
                IN  /\ FieldV(doc, from, to, "iflagret") = r.ret
                    /\ (FieldV(doc, from, to, "error") = 0) <=> ok
                    /\ FieldV(doc, from, to, "error") \in {0, 1}
                    /\ HasField(doc, from, to, "ks", "error_msg")
                           <=> (FieldV(doc, from, to, "error") = 1)
                    /\ names = IF ok THEN BodyFields ELSE Append(BodyFields, "error_msg")
                    /\ \A j \in from..(to - 1) :
                           doc[j].c = (IF (j - from) % 2 = 1 THEN "," ELSE doc[j].c)
                    /\ IF ok
                       THEN /\ FieldV(doc, from, to, "long") = r.x[1]
                            /\ FieldV(doc, from, to, "lat") = r.x[2]
                            /\ FieldV(doc, from, to, "distance") = r.x[3]
                            /\ FieldV(doc, from, to, "speed") = r.x[4]
                            /\ FieldS(doc, from, to, "long_s") = ZodiacString(r.x[1])
                       ELSE /\ FieldV(doc, from, to, "long") = 0
                            /\ FieldV(doc, from, to, "lat") = 0
                            /\ FieldV(doc, from, to, "distance") = 0
                            /\ FieldV(doc, from, to, "speed") = 0
                            /\ FieldS(doc, from, to, "long_s") = <<>>
                            /\ LET back == JSONUnescape(FieldS(doc, from, to, "error_msg"))
                               IN  ~back.pending /\ back.out = Spaced(r.serr)

\* a planets array with a computed body, a body whose status is positive
\* without the Swiss-ephemeris flag, and so an error record beside the others
C25_Witness ==
    /\ op \in PlanetOps
    /\ call.env.bad # {}
    /\ call.env.ret > 0
    /\ \E i \in IdxOf(doc, "kv", "error") : doc[i].v = 1
    /\ \E i \in IdxOf(doc, "kv", "error") : doc[i].v = 0
    /\ \E i \in IdxOf(doc, "ks", "error_msg") : doc[i].s # <<>>

(***************************************************************************)
(* C26: each message the worker posts settles only the pending request it  *)
(* was produced for: a response never resolves or rejects the promise of a *)
(* different request, the error messages posted without an id when the     *)
(* module fails to load included, whatever was issued in between.          *)
(***************************************************************************)
\* the promise was settled by a message of the worker
SettledByMessage(id) ==
    /\ client.promise[id].state \in {"resolved", "rejected"}
    /\ client.promise[id].by.text \notin {"Calculation timeout", "Worker error"}

C26_ResponsesReachTheirRequest ==
    \A id \in Ids : SettledByMessage(id) => id \in client.promise[id].by.for

(***************************************************************************)
(* C27: auto-cleanup terminates the worker only when no calculation is     *)
(* pending: whenever the cleanup timer terminates the worker, the          *)
(* pendingCalculations map is empty, for every interleaving of responses,  *)
(* new requests, timeouts and timer expiries.                              *)
(***************************************************************************)
C27_CleanupOnlyWhenIdle ==
    [][(CleanupTimer /\ client.worker /\ ~client'.worker)
       => client.pendingCalculations = {}]_vars

\* the timer has terminated the worker after a response was delivered
C27_Witness ==
    /\ ~client.worker
    /\ ~client.armed
    /\ client.pendingCalculations = {}
    /\ \E id \in Ids : /\ client.promise[id].state = "resolved"
                       /\ client.promise[id].call = "calculate"
    /\ \E id \in Ids : client.promise[id].by.text = "Calculation timeout"

(***************************************************************************)
(* C28: the worker answers a preload command with success true only when   *)
(* the WASM module is loaded: never while the module is still loading or   *)
(* after its loading has failed.                                           *)
(***************************************************************************)
\* the messages the worker posts in this step
NewlyPosted ==
    { channel'.toClient[i] : i \in (Len(channel.toClient) + 1)..Len(channel'.toClient) }

C28_PreloadSuccessMeansLoaded ==
    [][\A m \in NewlyPosted :
           (m.command = "preload" /\ m.success) => isModuleLoaded']_vars

MaxDest == 5
DestSizes == 2..MaxDest

NextEscSize ==
    \/ \E src \in ShortTexts, dest_size \in DestSizes :
          EscapeJsonString("dest", src, dest_size)
    \/ FreeMemory

SpecEscSize == Init /\ [][NextEscSize]_vars

(***************************************************************************)
(* C30: for every source string and every dest_size >= 2,                  *)
(* escape_json_string writes only within dest[0..dest_size-1] and leaves   *)
(* dest NUL-terminated: the characters written, followed by the            *)
(* terminator at dest[dest_idx], end no later than dest[dest_size - 1];    *)
(* the unsigned dest_size - 3 never wraps so as to let a two-character     *)
(* escape plus the terminator run past the end.                            *)
(***************************************************************************)
C30_EscapeStaysWithinDest ==
    op = "escape_json_string" => Len(embedded[1].written) <= buflen - 1

====
